---- MODULE Spec2Model ----
(***************************************************************************)
(* Model of the Notion connector of unstructured-ingest:                   *)
(*   - get_recursive_content, the worklist crawler over pages/databases    *)
(*   - process_block, the recursive block-tree renderer, with build_table  *)
(*     and build_columned_list                                             *)
(*   - extract_database_html, the database-to-table renderer               *)
(* Every identifier is the canonical string form of a UUID, which is what  *)
(* the Notion API returns; ids are modelled as positive integers and None  *)
(* as 0.                                                                   *)
(***************************************************************************)
EXTENDS Integers, Sequences, FiniteSets, TLC

\* ------------------------------------------------------------------------
\* Bounds of the model
\* ------------------------------------------------------------------------
NumIds == 3
MaxChildren == 2
MaxIndexedChildren == 1  \* children of an entity of the workspaces the indexer runs on

\* the while loop of the crawler is cut off after this many iterations; the
\* termination claim shows that no run is cut off
MaxPops == 1 + NumIds * MaxChildren

\* the renderer
MaxSiblings == 4      \* longest sibling sequence of list items and plain blocks
MaxDepth == 6         \* nested process_block calls before the interpreter gives up
MaxNested == 1        \* children of a block below the root of a render
MaxLevel == 4         \* largest start_level a render is called with
MaxRows == 3          \* rows of a table
MaxMentionRows == 2   \* rows of a table whose cells hold mentions
MaxWidth == 2         \* cells of a table row
MaxProps == 3         \* properties of a database schema
MaxDbRows == 2        \* rows of a database query
NumChars == 2         \* distinct characters in property names
MaxNameLen == 2       \* characters of a property name
MaxDownloadItems == 1 \* children of a downloaded page; properties and rows of a downloaded database

None == 0

\* ------------------------------------------------------------------------
\* Generic helpers on sequences (Python list operations)
\* ------------------------------------------------------------------------
ToSet(s) == {s[i] : i \in 1..Len(s)}

Count(s, x) == Cardinality({i \in 1..Len(s) : s[i] = x})

NoDuplicates(s) == \A i, j \in 1..Len(s) : s[i] = s[j] => i = j

\* a removal by position instead of by value: child_pages.pop()
RemoveLast(s, x) ==
    IF x \notin ToSet(s) THEN s ELSE SubSeq(s, 1, Len(s) - 1)

\* list.remove(x): drops the first occurrence of x
RemoveFirst(s, x) ==
    IF x \notin ToSet(s) THEN s
    ELSE LET k == CHOOSE i \in 1..Len(s) : s[i] = x /\ \A j \in 1..(i-1) : s[j] # x
         IN  [i \in 1..(Len(s)-1) |-> IF i < k THEN s[i] ELSE s[i+1]]

\* [f(x) for x in s]
RECURSIVE MapIds(_)
MapIds(s) == IF s = <<>> THEN <<>> ELSE <<Head(s).id>> \o MapIds(Tail(s))

\* all sequences over S of length at most n
SeqUpTo(S, n) == UNION {[1..k -> S] : k \in 0..n}

\* all orders in which the elements of a finite set can be listed: list(set(..))
Orders(S) == {s \in [1..Cardinality(S) -> S] : ToSet(s) = S}

\* ------------------------------------------------------------------------
\* The workspace graph seen by the crawler
\* ------------------------------------------------------------------------
Ids == 1..NumIds

EntityKinds == {"page", "database"}

ChildPageBlock(i) == [kind |-> "child_page", id |-> i, page_id |-> None, database_id |-> None]
ChildDatabaseBlock(i) == [kind |-> "child_database", id |-> i, page_id |-> None, database_id |-> None]
LinkToPageBlock(p, d) == [kind |-> "link_to_page", id |-> None, page_id |-> p, database_id |-> d]
PageRow(i) == [kind |-> "page", id |-> i, page_id |-> None, database_id |-> None]
DatabaseRow(i) == [kind |-> "database", id |-> i, page_id |-> None, database_id |-> None]

\* the blocks client.blocks.children.iterate_list can return for page i when
\* the entities have the kinds k: markers of and links to the other entities
PageBlocks(i, k) ==
    {IF k[j] = "page" THEN ChildPageBlock(j) ELSE ChildDatabaseBlock(j) : j \in Ids \ {i}}
    \cup {IF k[j] = "page" THEN LinkToPageBlock(j, None) ELSE LinkToPageBlock(None, j) :
            j \in Ids \ {i}}

\* the rows client.databases.iterate_query can return for database i
DatabaseRows(i, k) ==
    {IF k[j] = "page" THEN PageRow(j) ELSE DatabaseRow(j) : j \in Ids \ {i}}

ChildrenOf(i, k) ==
    SeqUpTo(IF k[i] = "page" THEN PageBlocks(i, k) ELSE DatabaseRows(i, k), MaxChildren)

RECURSIVE GraphsUpTo(_, _)
GraphsUpTo(n, k) ==
    IF n = 0 THEN {<<>>}
    ELSE {Append(g, c) : g \in GraphsUpTo(n - 1, k), c \in ChildrenOf(n, k)}

\* the ids an entity refers to
RefsOf(children) ==
    {children[n].id : n \in {m \in 1..Len(children) : children[m].id # None}}
    \cup {children[n].page_id : n \in {m \in 1..Len(children) : children[m].page_id # None}}
    \cup {children[n].database_id : n \in {m \in 1..Len(children) : children[m].database_id # None}}

QueueEntry(t, i) == [type |-> t, id |-> i]

VARIABLES
    entity,       \* id -> "page" or "database"
    graph,        \* id -> children of the page / rows of the database
    start,        \* init_entry
    flaky,        \* TRUE: any fetch may raise; FALSE: exactly the fetches of `failing` raise
    failing,      \* ids whose fetch raises when the API is not flaky
    beneath,      \* page id -> the link_to_page blocks nested below a child block of the page
    parents,      \* the worklist (a Python list used as a stack)
    child_pages,
    child_dbs,
    processed,
    failed,       \* ids whose fetch raised APIResponseError so far
    pc,           \* "loop" while in the while loop, "done" after return
    run,          \* 1 for the first crawl, 2 for a second crawl of the same graph
    first_pages,  \* the discovered pages the first crawl returned
    first_dbs     \* the discovered databases the first crawl returned

VARIABLES
    root,         \* the block handed to process_block / build_table
    tree,         \* block id -> the children client.blocks.children returns
    fail_ids,     \* block ids whose children request raises APIResponseError
    arg_level,    \* the start_level argument of process_block
    database,     \* what client.databases.retrieve returns
    db_rows,      \* what client.databases.iterate_query returns
    response,     \* the value returned (or the error raised) by the call
    rpc           \* "init" before the call, the name of the function after it

VARIABLES
    index_config,          \* page_ids, database_ids and recursive of NotionIndexerConfig
    processed_pages,
    processed_databases,
    pages_to_process,
    databases_to_process,
    snapshot,              \* what is left of the list a for loop of NotionIndexer.run walks
    current,               \* the id the for loop is at
    yielded,               \* the FileData yielded so far (kind and identifier)
    ipc,                   \* the position of NotionIndexer.run
    record_locator,        \* file_data.metadata.record_locator handed to NotionDownloader.run
    disk_ok,               \* FALSE: creating or writing the download file raises
    download,              \* what NotionDownloader.run returned or raised
    decoder,               \* the class whose from_dict is called
    payload,               \* the value of the user key in the data handed to from_dict
    decoded                \* what from_dict stored in the user field, or the error raised

renderInput == <<root, tree, fail_ids, arg_level, database, db_rows>>

renderVars == <<renderInput, response, rpc>>

crawlInput == <<entity, graph, start, flaky, failing, beneath>>

crawlVars == <<crawlInput, parents, child_pages, child_dbs, processed, failed, pc,
               run, first_pages, first_dbs>>

indexVars == <<index_config, processed_pages, processed_databases, pages_to_process,
               databases_to_process, snapshot, current, yielded, ipc>>

downloadVars == <<record_locator, disk_ok, download>>

decodeVars == <<decoder, payload, decoded>>

connectorVars == <<indexVars, downloadVars, decodeVars>>

vars == <<crawlVars, renderVars, connectorVars>>

\* no render call is in progress
NoResponse == [status |-> "none", html |-> <<>>, child_pages |-> <<>>,
               child_databases |-> <<>>, fetched |-> <<>>]

RenderIdle ==
    /\ root = <<>>
    /\ tree = <<>>
    /\ fail_ids = {}
    /\ arg_level = 0
    /\ database = <<>>
    /\ db_rows = <<>>
    /\ response = NoResponse
    /\ rpc = "idle"

\* no crawl is in progress
CrawlIdle ==
    /\ entity = <<>>
    /\ graph = <<>>
    /\ start = <<>>
    /\ flaky = FALSE
    /\ failing = {}
    /\ beneath = <<>>
    /\ parents = <<>>
    /\ child_pages = <<>>
    /\ child_dbs = <<>>
    /\ processed = <<>>
    /\ failed = {}
    /\ pc = "idle"
    /\ run = 0
    /\ first_pages = {}
    /\ first_dbs = {}

\* NotionIndexer.run is not in progress
IndexerIdle ==
    /\ index_config = <<>>
    /\ processed_pages = {}
    /\ processed_databases = {}
    /\ pages_to_process = {}
    /\ databases_to_process = {}
    /\ snapshot = <<>>
    /\ current = None
    /\ yielded = <<>>
    /\ ipc = "idle"

\* NotionDownloader.run has not been called
NoDownload == [outcome |-> "none", value |-> "none"]

\* NotionDownloader.run is not in progress
DownloaderIdle ==
    /\ record_locator = <<>>
    /\ disk_ok = TRUE
    /\ download = NoDownload

\* no payload has been handed to a decoder, nothing has been decoded
NoPayload == [given |-> FALSE, dict |-> <<>>]

NoDecoded == [status |-> "none", variant |-> "none"]

\* no cell decoder is in progress
DecodeIdle ==
    /\ decoder = "none"
    /\ payload = NoPayload
    /\ decoded = NoDecoded

ConnectorIdle == IndexerIdle /\ DownloaderIdle /\ DecodeIdle

\* state of get_recursive_content after lines 298-301
CrawlStart ==
    /\ parents = <<start>>
    /\ child_pages = <<>>
    /\ child_dbs = <<>>
    /\ processed = <<>>
    /\ failed = {}
    /\ pc = "loop"

\* no block of the workspace has children of its own
NothingBeneath == beneath = [i \in Ids |-> <<>>]

CrawlInput ==
    /\ entity \in [Ids -> EntityKinds]
    /\ graph \in GraphsUpTo(NumIds, entity)
    /\ NothingBeneath
    /\ start = QueueEntry(entity[1], 1)
    /\ run = 1
    /\ first_pages = {}
    /\ first_dbs = {}
    /\ CrawlStart
    /\ RenderIdle
    /\ ConnectorIdle

\* any call of the client may raise APIResponseError
InitCrawl ==
    /\ CrawlInput
    /\ flaky = TRUE
    /\ failing = {}

\* the calls for a fixed set of entries raise, all others succeed
InitCrawlStable ==
    /\ CrawlInput
    /\ flaky = FALSE
    /\ failing \in SUBSET Ids

FetchMayRaise(i) == flaky \/ i \in failing
FetchMaySucceed(i) == flaky \/ i \notin failing

\* the entry at position k of the worklist, and the worklist without it
EntryAt(k) == parents[k]

\* taking the entry at position k drops the entries behind it as well
RestAtTruncates(k) == SubSeq(parents, 1, k - 1)

RestAt(k) == SubSeq(parents, 1, k - 1) \o SubSeq(parents, k + 1, Len(parents))

\* parents.pop(): the last entry is taken
Top == EntryAt(Len(parents))
Popped == RestAt(Len(parents))

\* the fetch of the popped entry raises after a chunk was received, and the
\* child pages (or page rows) of that chunk are added and pushed all the same
CrawlFetchRaisesAfterChunk ==
    /\ pc = "loop"
    /\ Len(parents) > 0
    /\ Len(processed) < MaxPops
    /\ FetchMayRaise(Top.id)
    /\ LET got == SelectSeq(MapIds(SelectSeq(graph[Top.id],
                                             LAMBDA b : b.kind \in {"child_page", "page"})),
                            LAMBDA i : i \notin ToSet(processed) \cup {Top.id})
       IN  /\ parents' = Popped \o [n \in 1..Len(got) |-> QueueEntry("page", got[n])]
           /\ IF Top.type = "page"
              THEN child_pages' = RemoveFirst(child_pages, Top.id) \o got /\ UNCHANGED child_dbs
              ELSE /\ child_dbs' = RemoveFirst(child_dbs, Top.id)
                   /\ child_pages' = child_pages \o got
    /\ processed' = Append(processed, Top.id)
    /\ failed' = failed \cup {Top.id}
    /\ UNCHANGED <<crawlInput, pc, run, first_pages, first_dbs, renderVars, connectorVars>>

\* lines 313-317 and 392-396: the fetch of the popped entry raises
CrawlFetchRaisesAt(k) ==
    /\ pc = "loop"
    /\ k \in 1..Len(parents)
    /\ Len(processed) < MaxPops
    /\ FetchMayRaise(EntryAt(k).id)
    /\ parents' = RestAt(k)
    /\ processed' = Append(processed, EntryAt(k).id)
    /\ failed' = failed \cup {EntryAt(k).id}
    /\ IF EntryAt(k).type = "page"
       THEN child_pages' = RemoveFirst(child_pages, EntryAt(k).id) /\ UNCHANGED child_dbs
       ELSE child_dbs' = RemoveFirst(child_dbs, EntryAt(k).id) /\ UNCHANGED child_pages
    /\ UNCHANGED <<crawlInput, pc, run, first_pages, first_dbs, renderVars, connectorVars>>

\* the code pops the last entry
CrawlFetchRaises == CrawlFetchRaisesAt(Len(parents))

OfKind(s, k) == SelectSeq(s, LAMBDA b : b.kind = k)

\* the comprehension without its "not in processed" condition
NotInUnfiltered(s, done) == MapIds(s)

\* [x.id for x in s if x.id not in done]
NotIn(s, done) == SelectSeq(MapIds(s), LAMBDA i : i \notin ToSet(done))

\* the loop over the link_to_page blocks without its database_id branch
RECURSIVE FollowPageLinksOnly(_, _, _)
FollowPageLinksOnly(links, done, st) ==
    IF links = <<>> THEN st
    ELSE LET l == Head(links)
             addP == l.page_id # None /\ l.page_id \notin ToSet(done) /\ l.page_id \notin ToSet(st.cp)
             st1 == IF addP
                    THEN [st EXCEPT !.cp = Append(@, l.page_id),
                                    !.ps = Append(@, QueueEntry("page", l.page_id))]
                    ELSE st
         IN  FollowPageLinksOnly(Tail(links), done, st1)

\* the loop over the link_to_page blocks without its tests on processed
RECURSIVE FollowLinksNoProcessed(_, _, _)
FollowLinksNoProcessed(links, done, st) ==
    IF links = <<>> THEN st
    ELSE LET l == Head(links)
             addP == l.page_id # None /\ l.page_id \notin ToSet(st.cp)
             st1 == IF addP
                    THEN [st EXCEPT !.cp = Append(@, l.page_id),
                                    !.ps = Append(@, QueueEntry("page", l.page_id))]
                    ELSE st
             addD == l.database_id # None /\ l.database_id \notin ToSet(st1.cd)
             st2 == IF addD
                    THEN [st1 EXCEPT !.cd = Append(@, l.database_id),
                                     !.ps = Append(@, QueueEntry("database", l.database_id))]
                    ELSE st1
         IN  FollowLinksNoProcessed(Tail(links), done, st2)

\* lines 370-382: the loop over the link_to_page blocks, on the state
\* st = [cp |-> child_pages, cd |-> child_dbs, ps |-> parents]
RECURSIVE FollowLinks(_, _, _)
FollowLinks(links, done, st) ==
    IF links = <<>> THEN st
    ELSE LET l == Head(links)
             addP == l.page_id # None /\ l.page_id \notin ToSet(done) /\ l.page_id \notin ToSet(st.cp)
             st1 == IF addP
                    THEN [st EXCEPT !.cp = Append(@, l.page_id),
                                    !.ps = Append(@, QueueEntry("page", l.page_id))]
                    ELSE st
             addD == l.database_id # None /\ l.database_id \notin ToSet(done)
                        /\ l.database_id \notin ToSet(st1.cd)
             st2 == IF addD
                    THEN [st1 EXCEPT !.cd = Append(@, l.database_id),
                                     !.ps = Append(@, QueueEntry("database", l.database_id))]
                    ELSE st1
         IN  FollowLinks(Tail(links), done, st2)

Entries(t, ids) == [i \in 1..Len(ids) |-> QueueEntry(t, ids[i])]

\* lines 305-382: a page entry is popped and its children are fetched
CrawlPageAt(k) ==
    /\ pc = "loop"
    /\ k \in 1..Len(parents)
    /\ Len(processed) < MaxPops
    /\ EntryAt(k).type = "page"
    /\ FetchMaySucceed(EntryAt(k).id)
    /\ LET page_children == graph[EntryAt(k).id]
           done == Append(processed, EntryAt(k).id)
       IN  /\ processed' = done
           /\ IF page_children = <<>>
              THEN /\ parents' = RestAt(k)
                   /\ UNCHANGED <<child_pages, child_dbs>>
              ELSE \E new_pages \in Orders(ToSet(NotIn(OfKind(page_children, "child_page"), done))),
                      new_dbs \in Orders(ToSet(NotIn(OfKind(page_children, "child_database"), done))) :
                      LET st == FollowLinks(OfKind(page_children, "link_to_page"), done,
                                   [cp |-> child_pages \o new_pages,
                                    cd |-> child_dbs \o new_dbs,
                                    ps |-> RestAt(k) \o Entries("page", new_pages)
                                                  \o Entries("database", new_dbs)])
                      IN  /\ child_pages' = st.cp
                          /\ child_dbs' = st.cd
                          /\ parents' = st.ps
    /\ UNCHANGED <<crawlInput, failed, pc, run, first_pages, first_dbs, renderVars, connectorVars>>

CrawlPage == CrawlPageAt(Len(parents))

\* lines 384-430: a database entry is popped and its rows are queried
CrawlDatabaseAt(k) ==
    /\ pc = "loop"
    /\ k \in 1..Len(parents)
    /\ Len(processed) < MaxPops
    /\ EntryAt(k).type = "database"
    /\ FetchMaySucceed(EntryAt(k).id)
    /\ LET database_pages == graph[EntryAt(k).id]
           done == Append(processed, EntryAt(k).id)
           new_pages == NotIn(OfKind(database_pages, "page"), done)
           new_dbs == NotIn(OfKind(database_pages, "database"), done)
       IN  /\ processed' = done
           /\ child_pages' = child_pages \o new_pages
           /\ child_dbs' = child_dbs \o new_dbs
           /\ parents' = RestAt(k) \o Entries("page", new_pages) \o Entries("database", new_dbs)
    /\ UNCHANGED <<crawlInput, failed, pc, run, first_pages, first_dbs, renderVars, connectorVars>>

CrawlDatabase == CrawlDatabaseAt(Len(parents))

\* lines 302 and 432-435: the worklist is empty, the result is returned
CrawlReturn ==
    /\ pc = "loop"
    /\ Len(parents) = 0
    /\ pc' = "done"
    /\ UNCHANGED <<crawlInput, parents, child_pages, child_dbs, processed, failed,
                   run, first_pages, first_dbs, renderVars, connectorVars>>

NextCrawl == CrawlFetchRaises \/ CrawlPage \/ CrawlDatabase \/ CrawlReturn

\* the caller runs get_recursive_content a second time from the same entry
CrawlAgain ==
    /\ pc = "done"
    /\ run = 1
    /\ run' = 2
    /\ first_pages' = ToSet(child_pages)
    /\ first_dbs' = ToSet(child_dbs)
    /\ parents' = <<start>>
    /\ child_pages' = <<>>
    /\ child_dbs' = <<>>
    /\ processed' = <<>>
    /\ failed' = {}
    /\ pc' = "loop"
    /\ UNCHANGED <<crawlInput, renderVars, connectorVars>>

NextCrawlTwice == NextCrawl \/ CrawlAgain

Init == InitCrawl

Next == NextCrawl

Spec == Init /\ [][Next]_vars

\* the while loop keeps iterating: the crawler is a sequential program
SpecFair == Init /\ [][Next]_vars /\ WF_vars(Next)

SpecStable == InitCrawlStable /\ [][NextCrawl]_vars

SpecTwice == InitCrawlStable /\ [][NextCrawlTwice]_vars

\* one loop iteration of a crawler that takes any entry of the worklist
CrawlAnyFetchRaises == \E k \in 1..Len(parents) : CrawlFetchRaisesAt(k)
CrawlAnyPage == \E k \in 1..Len(parents) : CrawlPageAt(k)
CrawlAnyDatabase == \E k \in 1..Len(parents) : CrawlDatabaseAt(k)

\* the crawl as coded, followed by a crawl of the same workspace in which
\* every iteration takes any entry of the worklist (a queue, a stack, ..)
NextCrawlAnyOrder ==
    \/ run = 1 /\ NextCrawl
    \/ CrawlAgain
    \/ run = 2 /\ (CrawlAnyFetchRaises \/ CrawlAnyPage \/ CrawlAnyDatabase \/ CrawlReturn)

SpecAnyOrder == InitCrawlStable /\ [][NextCrawlAnyOrder]_vars

\* a block of a kind the crawler does not look at, with children of its own
HostBlock == [kind |-> "paragraph", id |-> None, page_id |-> None, database_id |-> None]

\* a workspace in which the first child of a start page can be a block that
\* has a link_to_page block among its own children
InitCrawlNested ==
    /\ entity \in [Ids -> EntityKinds]
    /\ \E g \in GraphsUpTo(NumIds, entity) :
          \/ graph = g /\ NothingBeneath
          \/ /\ entity[1] = "page"
             /\ graph = [g EXCEPT ![1] = <<HostBlock>> \o @]
             /\ \E j \in Ids \ {1} :
                   beneath = [i \in Ids |->
                                 IF i = 1
                                 THEN <<IF entity[j] = "page" THEN LinkToPageBlock(j, None)
                                        ELSE LinkToPageBlock(None, j)>>
                                 ELSE <<>>]
    /\ start = QueueEntry(entity[1], 1)
    /\ run = 1
    /\ first_pages = {}
    /\ first_dbs = {}
    /\ CrawlStart
    /\ RenderIdle
    /\ ConnectorIdle
    /\ flaky = TRUE
    /\ failing = {}

SpecNested == InitCrawlNested /\ [][NextCrawl]_vars

\* ---------------------------------------------------------------------
\* NotionIndexer.run (v2 connector.py 91-141): the generator that yields
\* one FileData per page and database and, in recursive mode, calls
\* get_recursive_content for each of them

\* the workspaces the indexer is run on: every entity has at most
\* MaxIndexedChildren children
IndexerGraphs(k) ==
    {g \in GraphsUpTo(NumIds, k) : \A i \in Ids : Len(g[i]) <= MaxIndexedChildren}

FileData(kind, i) == [kind |-> kind, identifier |-> i]

\* get_page_file_data / get_database_file_data: None when the retrieve call
\* raises, which is the case for the entities whose requests fail
FileDataOf(kind, i) == IF FetchMayRaise(i) THEN <<>> ELSE <<FileData(kind, i)>>

\* processed_pages.add(page_id) left out
MarkProcessedDropped(done, i) == done

\* processed_pages.add(page_id) / processed_databases.add(database_id)
MarkProcessed(done, i) == done \cup {i}

\* set(child_content.child_pages) without the difference with the processed ids
UnprocessedUnfiltered(found, done) == ToSet(found)

\* set(child_content.child_pages) - processed_pages, and the same for databases
Unprocessed(found, done) == ToSet(found) \ done

InitIndexer ==
    /\ entity \in [Ids -> EntityKinds]
    /\ graph \in IndexerGraphs(entity)
    /\ NothingBeneath
    /\ flaky = FALSE
    /\ failing \in {f \in SUBSET Ids : Cardinality(f) <= 1}
    /\ start = <<>>
    /\ parents = <<>>
    /\ child_pages = <<>>
    /\ child_dbs = <<>>
    /\ processed = <<>>
    /\ failed = {}
    /\ pc = "idle"
    /\ run = 1
    /\ first_pages = {}
    /\ first_dbs = {}
    /\ RenderIdle
    /\ DownloaderIdle
    /\ DecodeIdle
    /\ \E ids \in (SUBSET Ids) \ {{}}, recursive \in BOOLEAN :
          index_config = [page_ids |-> {i \in ids : entity[i] = "page"},
                          database_ids |-> {i \in ids : entity[i] = "database"},
                          recursive |-> recursive]
    /\ processed_pages = {}
    /\ processed_databases = {}
    /\ pages_to_process = index_config.page_ids
    /\ databases_to_process = index_config.database_ids
    /\ snapshot = <<>>
    /\ current = None
    /\ yielded = <<>>
    /\ ipc = "while"

crawlLocals == <<start, parents, child_pages, child_dbs, processed, failed, pc>>

crawlFixed == <<entity, graph, flaky, failing, beneath, run, first_pages, first_dbs>>

otherVars == <<renderVars, downloadVars, decodeVars>>

\* line 99, and line 101 when the loop is entered: list(pages_to_process)
IndexerWhile ==
    /\ ipc = "while"
    /\ IF pages_to_process = {} /\ databases_to_process = {}
       THEN ipc' = "done" /\ UNCHANGED snapshot
       ELSE /\ ipc' = "pages"
            /\ \E order \in Orders(pages_to_process) : snapshot' = order
    /\ UNCHANGED <<index_config, processed_pages, processed_databases, pages_to_process,
                   databases_to_process, current, yielded, crawlLocals, crawlFixed, otherVars>>

\* lines 101-109 and 122-129: one iteration of a for loop up to its yield
IndexerVisit(kind) ==
    /\ ipc = kind
    /\ snapshot # <<>>
    /\ snapshot' = Tail(snapshot)
    /\ LET i == Head(snapshot)
           done == IF kind = "pages" THEN processed_pages ELSE processed_databases
       IN  IF i \in done
           THEN UNCHANGED <<processed_pages, processed_databases, pages_to_process,
                            databases_to_process, current, yielded, ipc>>
           ELSE /\ IF kind = "pages"
                   THEN /\ processed_pages' = MarkProcessed(processed_pages, i)
                        /\ pages_to_process' = pages_to_process \ {i}
                        /\ yielded' = yielded \o FileDataOf("page", i)
                        /\ UNCHANGED <<processed_databases, databases_to_process>>
                   ELSE /\ processed_databases' = MarkProcessed(processed_databases, i)
                        /\ databases_to_process' = databases_to_process \ {i}
                        /\ yielded' = yielded \o FileDataOf("database", i)
                        /\ UNCHANGED <<processed_pages, pages_to_process>>
                /\ current' = i
                /\ ipc' = IF kind = "pages" THEN "page_children" ELSE "database_children"
    /\ UNCHANGED <<index_config, crawlLocals, crawlFixed, otherVars>>

IndexerPage == IndexerVisit("pages")

IndexerDatabase == IndexerVisit("databases")

\* lines 111-117 and 130-139: after the yield, in recursive mode,
\* get_recursive_content_from_page / _from_database is called
IndexerChildren(at, entry_type, crawling, back) ==
    /\ ipc = at
    /\ IF index_config.recursive
       THEN /\ start' = QueueEntry(entry_type, current)
            /\ parents' = <<QueueEntry(entry_type, current)>>
            /\ child_pages' = <<>>
            /\ child_dbs' = <<>>
            /\ processed' = <<>>
            /\ failed' = {}
            /\ pc' = "loop"
            /\ ipc' = crawling
       ELSE /\ ipc' = back
            /\ UNCHANGED crawlLocals
    /\ UNCHANGED <<index_config, processed_pages, processed_databases, pages_to_process,
                   databases_to_process, snapshot, current, yielded, crawlFixed, otherVars>>

IndexerPageChildren == IndexerChildren("page_children", "page", "page_crawl", "pages")

IndexerDatabaseChildren ==
    IndexerChildren("database_children", "database", "database_crawl", "databases")

\* lines 205-219, 118-119 and 221-235, 140-141: the crawl has returned, its
\* unprocessed ids are added to the two sets
IndexerMerge(crawling, back) ==
    /\ ipc = crawling
    /\ pc = "done"
    /\ pages_to_process' = pages_to_process \cup Unprocessed(child_pages, processed_pages)
    /\ databases_to_process' =
          databases_to_process \cup Unprocessed(child_dbs, processed_databases)
    /\ ipc' = back
    /\ start' = <<>>
    /\ parents' = <<>>
    /\ child_pages' = <<>>
    /\ child_dbs' = <<>>
    /\ processed' = <<>>
    /\ failed' = {}
    /\ pc' = "idle"
    /\ UNCHANGED <<index_config, processed_pages, processed_databases, snapshot, current,
                   yielded, crawlFixed, otherVars>>

IndexerPageMerge == IndexerMerge("page_crawl", "pages")

IndexerDatabaseMerge == IndexerMerge("database_crawl", "databases")

\* line 122: the loop over the pages is exhausted, list(databases_to_process)
IndexerPagesEnd ==
    /\ ipc = "pages"
    /\ snapshot = <<>>
    /\ \E order \in Orders(databases_to_process) : snapshot' = order
    /\ ipc' = "databases"
    /\ UNCHANGED <<index_config, processed_pages, processed_databases, pages_to_process,
                   databases_to_process, current, yielded, crawlLocals, crawlFixed, otherVars>>

\* the loop over the databases is exhausted: back to line 99
IndexerDatabasesEnd ==
    /\ ipc = "databases"
    /\ snapshot = <<>>
    /\ ipc' = "while"
    /\ UNCHANGED <<index_config, processed_pages, processed_databases, pages_to_process,
                   databases_to_process, snapshot, current, yielded, crawlLocals, crawlFixed,
                   otherVars>>

NextIndexer ==
    \/ IndexerWhile
    \/ IndexerPage
    \/ IndexerPageChildren
    \/ IndexerPageMerge
    \/ IndexerPagesEnd
    \/ IndexerDatabase
    \/ IndexerDatabaseChildren
    \/ IndexerDatabaseMerge
    \/ IndexerDatabasesEnd
    \/ NextCrawl

SpecIndexer == InitIndexer /\ [][NextIndexer]_vars

\* the generator is driven to exhaustion: the consumer keeps asking for the
\* next FileData and the loops keep running
SpecIndexerFair == InitIndexer /\ [][NextIndexer]_vars /\ WF_vars(NextIndexer)

\* ------------------------------------------------------------------------
\* Markup fragments (htmlBuilder tags)
\* ------------------------------------------------------------------------
Tag(t, attrs, inner) == [tag |-> t, attrs |-> attrs, inner |-> inner, text |-> <<>>]

\* a string placed inside a tag; strings are sequences of character codes
Text(x) == [tag |-> "#text", attrs |-> <<>>, inner |-> <<>>, text |-> x]

\* Python's None where an Optional[HtmlTag] is expected
NoHtml == [tag |-> "None", attrs |-> <<>>, inner |-> <<>>, text |-> <<>>]

Attr(n, v, a) == [name |-> n, value |-> v, arg |-> a]

Div(attrs, inner) == Tag("div", attrs, inner)

\* html.attributes = [..]
WithAttrs(h, attrs) == [h EXCEPT !.attrs = attrs]

\* html.inner_html.extend(more)
Extend(h, more) == [h EXCEPT !.inner = @ \o more]

\* ------------------------------------------------------------------------
\* Blocks
\* ------------------------------------------------------------------------
Block(i, k, hc) ==
    [id |-> i, kind |-> k, has_children |-> hc, has_column_header |-> FALSE, cells |-> <<>>]

TableBlock(i, hc, header) ==
    [id |-> i, kind |-> "table", has_children |-> hc, has_column_header |-> header,
     cells |-> <<>>]

TableRowBlock(i, cells) ==
    [id |-> i, kind |-> "table_row", has_children |-> FALSE, has_column_header |-> FALSE,
     cells |-> cells]

\* a rich-text run: its text and its mention (mention_type "none": no mention)
RichText(t, mtype, mid) == [text |-> t, mention_type |-> mtype, mention_id |-> mid]

\* RichText.get_html
RichTextHtml(rt) == Tag("span", <<>>, <<Text(rt.text)>>)

\* can_have_children answering True for every class
CanHaveChildrenAlways(kind) == TRUE

\* can_have_children of the block classes
CanHaveChildren(kind) == kind # "table_row"

\* TableCell.get_html(is_header)
CellHtml(cell, is_header) ==
    Tag(IF is_header THEN "th" ELSE "td", <<>>,
        [n \in 1..Len(cell) |-> RichTextHtml(cell[n])])

\* TableRow.get_html
TableRowHtml(cells, is_header) ==
    LET tr == Tag("tr", <<>>, [n \in 1..Len(cells) |-> CellHtml(cells[n], is_header)])
    IN  IF is_header THEN Tag("thead", <<>>, <<tr>>) ELSE tr

\* ChildPage.get_html: a paragraph holding the title of the page (the title
\* of page i is written as the text <<i>>)
ChildPageHtml(b) == Tag("p", <<>>, <<Text(<<b.id>>)>>)

\* Table.get_html
TableHtml == NoHtml

\* SyncBlock.get_html
SyncedBlockHtml == NoHtml

\* get_html of the block classes that hold text (here the text <<i>> for
\* block i) and of the classes whose content is their children only
OtherBlockHtml(b) ==
    CASE b.kind \in {"column_list", "column", "child_database"} -> NoHtml
      [] b.kind \in {"bulleted_list_item", "numbered_list_item"} ->
            Tag("li", <<>>, <<Text(<<b.id>>)>>)
      [] OTHER -> Div(<<>>, <<Text(<<b.id>>)>>)

\* Block.get_html: the fragment of the block itself, None for the kinds
\* whose content is their children only
GetHtml(b) ==
    CASE b.kind = "child_page" -> ChildPageHtml(b)
      [] b.kind = "table" -> TableHtml
      [] b.kind = "table_row" -> TableRowHtml(b.cells, FALSE)
      [] b.kind = "synced_block" -> SyncedBlockHtml
      [] OTHER -> OtherBlockHtml(b)

bulleted_list_styles == <<"circle", "square", "disc">>

numbered_list_types == <<"i", "a", "1">>

\* build_bulleted_list_item and build_numbered_list_item
BuildListItem(html) == WithAttrs(html, <<Attr("style", "margin-left: 10px", 0)>>)

\* the unordered list with the style taken at index start_level
UlUnshifted(start_level, items) ==
    Tag("ul", <<Attr("type", bulleted_list_styles[(start_level % Len(bulleted_list_styles)) + 1], 0)>>,
        items)

Ul(start_level, items) ==
    Tag("ul", <<Attr("type", bulleted_list_styles[((start_level + 1) % Len(bulleted_list_styles)) + 1], 0)>>,
        items)

Ol(start_level, items) ==
    Tag("ol", <<Attr("type", numbered_list_types[((start_level + 1) % Len(numbered_list_types)) + 1], 0)>>,
        items)

Element(k, h) == [kind |-> k, html |-> h]

\* helpers.py 114-130: one iteration of the loop that joins list items, on
\* the state st = [numbered, bullets, joined]
JoinStep(st, e, start_level) ==
    IF e.kind = "bulleted_list_item" THEN [st EXCEPT !.bullets = Append(@, e.html)]
    ELSE IF e.kind = "numbered_list_item" THEN [st EXCEPT !.numbered = Append(@, e.html)]
    ELSE IF Len(st.numbered) > 0
         THEN [st EXCEPT !.joined = Append(@, Ol(start_level, st.numbered)), !.numbered = <<>>]
    ELSE IF Len(st.bullets) > 0
         THEN [st EXCEPT !.joined = Append(@, Ul(start_level, st.bullets)), !.bullets = <<>>]
    ELSE IF e.html # NoHtml THEN [st EXCEPT !.joined = Append(@, e.html)]
    ELSE st

RECURSIVE JoinLoop(_, _, _)
JoinLoop(elems, st, start_level) ==
    IF elems = <<>> THEN st
    ELSE JoinLoop(Tail(elems), JoinStep(st, Head(elems), start_level), start_level)

\* the join without the two statements after the loop (lines 132-135)
JoinListItemsNoFinalFlush(elems, start_level) ==
    JoinLoop(elems, [numbered |-> <<>>, bullets |-> <<>>, joined |-> <<>>], start_level).joined

\* helpers.py 108-135: the fragments appended to the parent
JoinListItems(elems, start_level) ==
    LET st == JoinLoop(elems, [numbered |-> <<>>, bullets |-> <<>>, joined |-> <<>>], start_level)
        j1 == IF Len(st.numbered) > 0
              THEN Append(st.joined, Ol(start_level, st.numbered)) ELSE st.joined
    IN  IF Len(st.bullets) > 0 THEN Append(j1, Ul(start_level, st.bullets)) ELSE j1

\* ------------------------------------------------------------------------
\* process_block, build_table, build_columned_list
\* ------------------------------------------------------------------------
Ok(html, cp, cd, f) ==
    [status |-> "ok", html |-> html, child_pages |-> cp, child_databases |-> cd, fetched |-> f]

Raised(err, f) ==
    [status |-> err, html |-> NoHtml, child_pages |-> <<>>, child_databases |-> <<>>,
     fetched |-> f]

\* client.blocks.children.iterate_list(block_id), every chunk drained
FetchChildren(i) == IF i \in DOMAIN tree THEN tree[i] ELSE <<>>

FetchRaises(i) == i \in fail_ids

\* helpers.py 498-505 with only the first cell of every row scanned
MentionIdsFirstCell(rows, mtype) ==
    LET RECURSIVE OfRuns(_)
        OfRuns(runs) ==
            IF runs = <<>> THEN <<>>
            ELSE (IF Head(runs).mention_type = mtype /\ Head(runs).mention_id # None
                  THEN <<Head(runs).mention_id>> ELSE <<>>) \o OfRuns(Tail(runs))
        RECURSIVE OfRows(_)
        OfRows(rs) ==
            IF rs = <<>> THEN <<>>
            ELSE (IF Head(rs).cells = <<>> THEN <<>> ELSE OfRuns(Head(Head(rs).cells)))
                    \o OfRows(Tail(rs))
    IN  OfRows(rows)

\* helpers.py 498-505: the mentions in the cells of the rows
MentionIds(rows, mtype) ==
    LET RECURSIVE OfRuns(_)
        OfRuns(runs) ==
            IF runs = <<>> THEN <<>>
            ELSE (IF Head(runs).mention_type = mtype /\ Head(runs).mention_id # None
                  THEN <<Head(runs).mention_id>> ELSE <<>>) \o OfRuns(Tail(runs))
        RECURSIVE OfCells(_)
        OfCells(cells) ==
            IF cells = <<>> THEN <<>> ELSE OfRuns(Head(cells)) \o OfCells(Tail(cells))
        RECURSIVE OfRows(_)
        OfRows(rs) ==
            IF rs = <<>> THEN <<>> ELSE OfCells(Head(rs).cells) \o OfRows(Tail(rs))
    IN  OfRows(rows)

\* helpers.py 507-514 with the header row left in the list of rows
TableRowsHeaderKept(rows, has_column_header) ==
    IF has_column_header
    THEN <<TableRowHtml(rows[1].cells, TRUE)>>
            \o [n \in 1..Len(rows) |-> TableRowHtml(rows[n].cells, FALSE)]
    ELSE [n \in 1..Len(rows) |-> TableRowHtml(rows[n].cells, FALSE)]

\* helpers.py 507-514: the header row is popped from the rows and rendered
\* first, the remaining rows follow
TableRows(rows, has_column_header) ==
    IF has_column_header
    THEN <<TableRowHtml(rows[1].cells, TRUE)>>
            \o [n \in 1..(Len(rows) - 1) |-> TableRowHtml(rows[n + 1].cells, FALSE)]
    ELSE [n \in 1..Len(rows) |-> TableRowHtml(rows[n].cells, FALSE)]

\* helpers.py 484-521
BuildTable(table) ==
    IF table.kind # "table" THEN Raised("ValueError", <<>>)
    ELSE IF FetchRaises(table.id) THEN Raised("APIResponseError", <<table.id>>)
    ELSE LET rows == SelectSeq(FetchChildren(table.id), LAMBDA r : r.kind = "table_row")
         IN  IF table.has_column_header /\ rows = <<>>
             THEN Raised("IndexError", <<table.id>>)
             ELSE Ok(Tag("table", <<>>, TableRows(rows, table.has_column_header)),
                     MentionIds(rows, "page"), MentionIds(rows, "database"),
                     <<table.id>>)

RECURSIVE ProcessBlock(_, _, _)
RECURSIVE ProcessChildren(_, _, _, _, _)
RECURSIVE ProcessChildrenPastFailure(_, _, _, _, _)
RECURSIVE BuildColumns(_, _, _, _, _)

\* helpers.py 530-561 with the references found in the columns returned
BuildColumnedListMerging(column_parent, level, depth) ==
    IF column_parent.kind # "column_list" THEN Raised("ValueError", <<>>)
    ELSE IF FetchRaises(column_parent.id) THEN Raised("APIResponseError", <<column_parent.id>>)
    ELSE LET columns == FetchChildren(column_parent.id)
             acc == BuildColumns(columns, Len(columns), level, depth,
                                 [status |-> "ok", content |-> <<>>,
                                  fetched |-> <<column_parent.id>>])
             RECURSIVE PagesOf(_)
             PagesOf(cols) ==
                 IF cols = <<>> THEN <<>>
                 ELSE ProcessBlock(Head(cols), level + 1, depth + 1).child_pages
                         \o PagesOf(Tail(cols))
             RECURSIVE DatabasesOf(_)
             DatabasesOf(cols) ==
                 IF cols = <<>> THEN <<>>
                 ELSE ProcessBlock(Head(cols), level + 1, depth + 1).child_databases
                         \o DatabasesOf(Tail(cols))
         IN  IF acc.status # "ok" THEN Raised(acc.status, acc.fetched)
             ELSE Ok(Div(<<>>, acc.content), PagesOf(columns), DatabasesOf(columns),
                     acc.fetched)

\* helpers.py 530-561
BuildColumnedList(column_parent, level, depth) ==
    IF column_parent.kind # "column_list" THEN Raised("ValueError", <<>>)
    ELSE IF FetchRaises(column_parent.id) THEN Raised("APIResponseError", <<column_parent.id>>)
    ELSE LET columns == FetchChildren(column_parent.id)
             acc == BuildColumns(columns, Len(columns), level, depth,
                                 [status |-> "ok", content |-> <<>>,
                                  fetched |-> <<column_parent.id>>])
         IN  IF acc.status # "ok" THEN Raised(acc.status, acc.fetched)
             ELSE Ok(Div(<<>>, acc.content), <<>>, <<>>, acc.fetched)

\* helpers.py 542-555: the loop over the columns
BuildColumns(columns, num_columns, level, depth, acc) ==
    IF columns = <<>> THEN acc
    ELSE LET r == ProcessBlock(Head(columns), level + 1, depth + 1)
             fetched == acc.fetched \o r.fetched
         IN  IF r.status # "ok" THEN [acc EXCEPT !.status = r.status, !.fetched = fetched]
             ELSE BuildColumns(Tail(columns), num_columns, level, depth,
                     [acc EXCEPT !.fetched = fetched,
                                 !.content = Append(@,
                                     Div(<<Attr("style", "width:100/n%; float: left", num_columns)>>,
                                         <<r.html>>))])

\* helpers.py 79-106 with the statement of line 76 (commented out in the
\* source) in force: the fragment of every child is appended before the
\* dispatch on its kind
DispatchAfterAppend(c, r, parent, child_level, depth, acc) ==
    LET acc0 == [acc EXCEPT !.elems = Append(@, Element(c.kind, r.html))]
    IN  IF c.kind = "child_page" /\ c.id # parent.id
        THEN [acc0 EXCEPT !.child_pages = Append(@, c.id)]
        ELSE IF c.kind = "child_database"
        THEN [acc0 EXCEPT !.child_databases = Append(@, c.id)]
        ELSE IF c.kind \in {"bulleted_list_item", "numbered_list_item"}
        THEN [acc0 EXCEPT !.elems = Append(@, Element(c.kind, BuildListItem(r.html)))]
        ELSE [acc0 EXCEPT !.child_pages = @ \o r.child_pages,
                          !.child_databases = @ \o r.child_databases,
                          !.elems = Append(@, Element(c.kind, r.html))]

\* helpers.py 79-106: what the loop does with one processed child c, whose
\* own process_block call returned r
Dispatch(c, r, parent, child_level, depth, acc) ==
    IF c.kind = "child_page" /\ c.id # parent.id
    THEN [acc EXCEPT !.child_pages = Append(@, c.id)]
    ELSE IF c.kind = "child_database"
    THEN [acc EXCEPT !.child_databases = Append(@, c.id)]
    ELSE IF c.kind = "table"
    THEN LET t == BuildTable(c)
         IN  IF t.status # "ok"
             THEN [acc EXCEPT !.status = t.status, !.fetched = @ \o t.fetched]
             ELSE [acc EXCEPT !.elems = Append(@, Element(c.kind, t.html)),
                              !.child_pages = @ \o t.child_pages,
                              !.child_databases = @ \o t.child_databases,
                              !.fetched = @ \o t.fetched]
    ELSE IF c.kind = "column_list"
    THEN LET t == BuildColumnedList(c, child_level, depth)
         IN  IF t.status # "ok"
             THEN [acc EXCEPT !.status = t.status, !.fetched = @ \o t.fetched]
             ELSE [acc EXCEPT !.child_pages = @ \o t.child_pages,
                              !.child_databases = @ \o t.child_databases,
                              !.elems = Append(@, Element(c.kind, t.html)),
                              !.fetched = @ \o t.fetched]
    ELSE IF c.kind \in {"bulleted_list_item", "numbered_list_item"}
    THEN [acc EXCEPT !.elems = Append(@, Element(c.kind, BuildListItem(r.html)))]
    ELSE [acc EXCEPT !.child_pages = @ \o r.child_pages,
                     !.child_databases = @ \o r.child_databases,
                     !.elems = Append(@, Element(c.kind, r.html))]

\* helpers.py 67-106 with a failed child skipped and the loop continued
ProcessChildrenPastFailure(children, parent, start_level, depth, acc) ==
    IF children = <<>> \/ acc.status # "ok" THEN acc
    ELSE LET c == Head(children)
             r == ProcessBlock(c, start_level + 1, depth + 1)
             acc1 == [acc EXCEPT !.fetched = @ \o r.fetched]
         IN  IF r.status = "APIResponseError"
             THEN ProcessChildrenPastFailure(Tail(children), parent, start_level, depth, acc1)
             ELSE IF r.status # "ok" THEN [acc1 EXCEPT !.status = r.status]
             ELSE ProcessChildrenPastFailure(Tail(children), parent, start_level, depth,
                                  Dispatch(c, r, parent, start_level + 1, depth, acc1))

\* helpers.py 67-106: the loop over the children
ProcessChildren(children, parent, start_level, depth, acc) ==
    IF children = <<>> \/ acc.status # "ok" THEN acc
    ELSE LET c == Head(children)
             r == ProcessBlock(c, start_level + 1, depth + 1)
             acc1 == [acc EXCEPT !.fetched = @ \o r.fetched]
         IN  IF r.status # "ok" THEN [acc1 EXCEPT !.status = r.status]
             ELSE ProcessChildren(Tail(children), parent, start_level, depth,
                                  Dispatch(c, r, parent, start_level + 1, depth, acc1))

\* helpers.py 42-144; depth counts the nested calls
ProcessBlock(parent_block, level, depth) ==
    IF depth > MaxDepth THEN Raised("RecursionError", <<>>)
    ELSE IF ~parent_block.has_children THEN Ok(GetHtml(parent_block), <<>>, <<>>, <<>>)
    ELSE IF ~CanHaveChildren(parent_block.kind) THEN Raised("ValueError", <<>>)
    ELSE IF FetchRaises(parent_block.id) THEN Raised("APIResponseError", <<parent_block.id>>)
    ELSE LET own == GetHtml(parent_block)
             parent_html == IF own # NoHtml THEN own ELSE Div(<<>>, <<>>)
             acc == ProcessChildren(FetchChildren(parent_block.id), parent_block, level, depth,
                                    [status |-> "ok", elems |-> <<>>, child_pages |-> <<>>,
                                     child_databases |-> <<>>,
                                     fetched |-> <<parent_block.id>>])
         IN  IF acc.status # "ok" THEN Raised(acc.status, acc.fetched)
             ELSE Ok(Extend(parent_html, JoinListItems(acc.elems, level)),
                     acc.child_pages, acc.child_databases, acc.fetched)

\* helpers.py 162-189; the block client.blocks.retrieve returns is `root`
ExtractPageHtml(parent_block) ==
    LET r == ProcessBlock(parent_block, 0, 1)
        body == Tag("body", <<>>, <<r.html>>)
        head == Tag("head", <<>>, <<Tag("title", <<>>, <<Text(<<parent_block.id>>)>>)>>)
    IN  IF r.status # "ok" THEN r
        ELSE Ok(Tag("html", <<>>, IF parent_block.kind = "child_page"
                                  THEN <<head, body>> ELSE <<body>>),
                r.child_pages, r.child_databases, r.fetched)

\* ------------------------------------------------------------------------
\* The render calls
\* ------------------------------------------------------------------------
NoDatabase ==
    /\ database = <<>>
    /\ db_rows = <<>>

RenderStart ==
    /\ response = NoResponse
    /\ rpc = "init"

\* a parent with a sequence of list items and other childless blocks
ListKinds == {"bulleted_list_item", "numbered_list_item", "paragraph", "synced_block"}

InitLists ==
    /\ root \in {Block(1, k, TRUE) : k \in {"child_page", "paragraph"}}
    /\ \E n \in 0..MaxSiblings : \E kinds \in [1..n -> ListKinds] :
          tree = [i \in 1..(MaxSiblings + 1) |->
                     IF i = 1 THEN [m \in 1..n |-> Block(m + 1, kinds[m], FALSE)] ELSE <<>>]
    /\ fail_ids = {}
    /\ arg_level = 0
    /\ NoDatabase
    /\ RenderStart

\* a page whose subtree holds child-page markers, child-database markers and
\* paragraphs, over a few ids so that one id can occur in several places
RefBlocks ==
    {Block(i, k, hc) : i \in Ids, k \in {"child_page", "child_database", "paragraph"},
                       hc \in BOOLEAN}

InitRefs ==
    /\ root = Block(1, "child_page", TRUE)
    /\ \E top \in SeqUpTo(RefBlocks, MaxChildren), nested \in SeqUpTo(RefBlocks, MaxNested) :
          tree = [i \in Ids |-> IF i = 1 THEN top ELSE IF i = 2 THEN nested ELSE <<>>]
    /\ fail_ids = {}
    /\ arg_level = 0
    /\ NoDatabase
    /\ RenderStart

InitRender ==
    /\ CrawlIdle
    /\ ConnectorIdle
    /\ (InitLists \/ InitRefs)

\* process_block(client, logger, root, start_level)
ProcessBlockCall ==
    /\ rpc = "init"
    /\ response' = ProcessBlock(root, arg_level, 1)
    /\ rpc' = "process_block"
    /\ UNCHANGED <<renderInput, crawlVars, connectorVars>>

\* extract_page_html(client, root.id, logger)
ExtractPageHtmlCall ==
    /\ rpc = "init"
    /\ response' = ExtractPageHtml(root)
    /\ rpc' = "extract_page_html"
    /\ UNCHANGED <<renderInput, crawlVars, connectorVars>>

NextRender == ProcessBlockCall \/ ExtractPageHtmlCall

SpecRender == InitRender /\ [][NextRender]_vars

\* a parent rendered at any start level whose children are list items (with
\* nested items of their own), paragraphs and a column list whose columns
\* hold list items
LevelTop ==
    {Block(2, k, hc) : k \in {"bulleted_list_item", "numbered_list_item"}, hc \in BOOLEAN}
    \cup {Block(3, "column_list", TRUE), Block(6, "paragraph", FALSE)}

LevelNested ==
    {Block(6, k, FALSE) : k \in {"bulleted_list_item", "numbered_list_item", "paragraph"}}

LevelColumns == {Block(4, "column", TRUE), Block(5, "column", FALSE)}

LevelInColumn ==
    {Block(6, k, FALSE) : k \in {"bulleted_list_item", "numbered_list_item"}}
    \cup {Block(2, "bulleted_list_item", TRUE)}

InitLevels ==
    /\ CrawlIdle
    /\ ConnectorIdle
    /\ root \in {Block(1, k, TRUE) : k \in {"child_page", "paragraph"}}
    /\ \E top \in SeqUpTo(LevelTop, 2), nested \in SeqUpTo(LevelNested, 2),
          columns \in SeqUpTo(LevelColumns, 2), in_column \in SeqUpTo(LevelInColumn, 2) :
          tree = <<top, nested, columns, in_column>>
    /\ fail_ids = {}
    /\ arg_level \in 0..MaxLevel
    /\ NoDatabase
    /\ RenderStart

SpecLevels == InitLevels /\ [][NextRender]_vars

\* a block of any kind that reports children or not, over children among
\* which a table row can report children too
KindRoots ==
    {[Block(1, k, hc) EXCEPT !.cells = IF k = "table_row" THEN <<<<RichText(<<1>>, "none", None)>>>>
                                       ELSE <<>>] :
        k \in {"table_row", "table", "paragraph", "synced_block", "child_page"},
        hc \in BOOLEAN}

KindChildren ==
    {Block(2, "paragraph", FALSE), Block(4, "bulleted_list_item", FALSE)}
    \cup {[TableRowBlock(3, <<>>) EXCEPT !.has_children = hc] : hc \in BOOLEAN}

InitKinds ==
    /\ CrawlIdle
    /\ ConnectorIdle
    /\ root \in KindRoots
    /\ \E top \in SeqUpTo(KindChildren, 3), nested \in SeqUpTo(KindChildren, 1) :
          tree = <<top, <<>>, nested>>
    /\ fail_ids = {}
    /\ arg_level = 0
    /\ NoDatabase
    /\ RenderStart

SpecKinds == InitKinds /\ [][NextRender]_vars

\* a table with up to MaxRows children, rows of MaxWidth or fewer cells and,
\* possibly, children that are not rows
TableRichTexts ==
    {RichText(<<1>>, "none", None), RichText(<<2>>, "page", 2), RichText(<<3>>, "database", 3)}

TableCells == SeqUpTo(TableRichTexts, 1)

TableChildren(w) ==
    {[kind |-> "table_row", cells |-> c] : c \in [1..w -> TableCells]}
    \cup {[kind |-> "paragraph", cells |-> <<>>]}

InitTable ==
    /\ CrawlIdle
    /\ ConnectorIdle
    /\ \E header \in BOOLEAN : root = TableBlock(1, TRUE, header)
    /\ \E w \in 1..MaxWidth : \E n \in 0..MaxRows : \E ch \in [1..n -> TableChildren(w)] :
          tree = <<[m \in 1..n |->
                      IF ch[m].kind = "table_row" THEN TableRowBlock(m + 1, ch[m].cells)
                      ELSE Block(m + 1, "paragraph", FALSE)]>>
    /\ fail_ids = {}
    /\ arg_level = 0
    /\ NoDatabase
    /\ RenderStart

\* build_table(client, root)
BuildTableCall ==
    /\ rpc = "init"
    /\ response' = BuildTable(root)
    /\ rpc' = "build_table"
    /\ UNCHANGED <<renderInput, crawlVars, connectorVars>>

NextTable == BuildTableCall

SpecTable == InitTable /\ [][NextTable]_vars

\* a page whose children are a table (rows of two cells that can mention a
\* page or a database), a column list (one column holding a leaf), a block
\* or list item holding a leaf, and markers; or a column list or a table by
\* itself.
\* Sibling blocks have distinct ids, and any single fetch can be the one
\* that fails.
ContainerTop ==
    {TableBlock(4, TRUE, header) : header \in BOOLEAN}
    \cup {Block(5, "column_list", TRUE)}
    \cup {Block(6, k, TRUE) : k \in {"paragraph", "bulleted_list_item", "numbered_list_item"}}
    \cup {Block(2, "child_page", hc) : hc \in BOOLEAN}
    \cup {Block(3, "child_database", FALSE)}

ContainerLeaves ==
    {Block(1, "child_page", FALSE), Block(2, "child_page", FALSE),
     Block(3, "child_database", FALSE), Block(10, "paragraph", FALSE)}

ContainerRows == {<<<<a>>, <<b>>>> : a, b \in TableRichTexts}

HasKind(blocks, kinds) == \E n \in 1..Len(blocks) : blocks[n].kind \in kinds

ContainerTree(top, rows, in_column, nested) ==
    [i \in 1..7 |->
        CASE i = 1 -> top
          [] i = 2 -> <<Block(11, "paragraph", FALSE)>>
          [] i = 4 -> [n \in 1..Len(rows) |-> TableRowBlock(7 + n, rows[n])]
          [] i = 5 -> <<Block(7, "column", TRUE)>>
          [] i = 6 -> nested
          [] i = 7 -> in_column
          [] OTHER -> <<>>]

InitContainers ==
    /\ CrawlIdle
    /\ ConnectorIdle
    /\ \/ /\ root = Block(1, "child_page", TRUE)
          /\ \E top \in SeqUpTo(ContainerTop, MaxChildren) :
                /\ NoDuplicates(MapIds(top))
                /\ \E rows \in (IF HasKind(top, {"table"})
                                THEN SeqUpTo(ContainerRows, MaxMentionRows) ELSE {<<>>}),
                      in_column \in (IF HasKind(top, {"column_list"})
                                     THEN SeqUpTo(ContainerLeaves, MaxNested) ELSE {<<>>}),
                      nested \in (IF HasKind(top, {"paragraph", "bulleted_list_item",
                                                   "numbered_list_item"})
                                  THEN SeqUpTo(ContainerLeaves, MaxNested) ELSE {<<>>}) :
                      tree = ContainerTree(top, rows, in_column, nested)
       \/ /\ root = Block(5, "column_list", TRUE)
          /\ \E in_column \in SeqUpTo(ContainerLeaves, MaxNested) :
                tree = ContainerTree(<<>>, <<>>, in_column, <<>>)
       \/ /\ \E header \in BOOLEAN : root = TableBlock(4, TRUE, header)
          /\ \E rows \in SeqUpTo(ContainerRows, MaxMentionRows) :
                tree = ContainerTree(<<>>, rows, <<>>, <<>>)
    /\ \E f \in SUBSET {1, 2, 4, 5, 6, 7} : Cardinality(f) <= 1 /\ fail_ids = f
    /\ arg_level = 0
    /\ NoDatabase
    /\ RenderStart

\* build_columned_list(client, logger, root, arg_level)
BuildColumnedListCall ==
    /\ rpc = "init"
    /\ response' = BuildColumnedList(root, arg_level, 1)
    /\ rpc' = "build_columned_list"
    /\ UNCHANGED <<renderInput, crawlVars, connectorVars>>

NextContainers == ProcessBlockCall \/ BuildColumnedListCall \/ BuildTableCall

SpecContainers == InitContainers /\ [][NextContainers]_vars

\* ------------------------------------------------------------------------
\* extract_database_html
\* ------------------------------------------------------------------------
\* Python's order on strings: by character code, a proper prefix first
RECURSIVE LexLess(_, _)
LexLess(a, b) ==
    IF b = <<>> THEN FALSE
    ELSE IF a = <<>> THEN TRUE
    ELSE IF Head(a) # Head(b) THEN Head(a) < Head(b)
    ELSE LexLess(Tail(a), Tail(b))

\* the list with x put before the first element greater than x
RECURSIVE InsertSorted(_, _)
InsertSorted(s, x) ==
    IF s = <<>> THEN <<x>>
    ELSE IF LexLess(x, Head(s)) THEN <<x>> \o s
    ELSE <<Head(s)>> \o InsertSorted(Tail(s), x)

\* the keys in the insertion order of the mapping: list(properties.keys())
Unsorted(s) == s

\* sorted(property_keys)
RECURSIVE Sorted(_)
Sorted(s) == IF s = <<>> THEN <<>> ELSE InsertSorted(Sorted(Tail(s)), Head(s))

\* RichTextCell.get_html: None for a cell without rich text
DbCellHtml(cell) ==
    IF cell = <<>> THEN NoHtml
    ELSE Div(<<>>, [n \in 1..Len(cell) |-> Tag("span", <<>>, <<RichTextHtml(cell[n])>>)])

\* helpers.py 217-229: the body rows; a row without one of the keys makes
\* properties.get(k) None, and None.get_html() raises AttributeError
RowHasKeys(row, keys) == \A n \in 1..Len(keys) : keys[n] \in DOMAIN row.properties

DbBodyRow(row, keys) ==
    Tag("tr", <<>>,
        [n \in 1..Len(keys) |->
            LET html == DbCellHtml(row.properties[keys[n]])
            IN  Tag("td", <<>>, <<IF html # NoHtml THEN html ELSE Div(<<>>, <<>>)>>)])

\* helpers.py 218-221 with every row recorded, whatever its class
RowIdsOfAnyKind(rows, k) == MapIds(rows)

\* helpers.py 218-221: the ids of the rows that are pages / databases
RowIds(rows, k) == MapIds(SelectSeq(rows, LAMBDA r : r.kind = k))

\* helpers.py 192-249
ExtractDatabaseHtml(db, rows) ==
    LET property_keys == Sorted(db.properties)
        header == Tag("tr", <<>>, [n \in 1..Len(property_keys) |->
                                      Tag("th", <<>>, <<Text(property_keys[n])>>)])
        has_title == db.title # <<>>
        head == Tag("head", <<>>, <<Tag("title", <<>>, <<Text(db.title)>>)>>)
        heading == Tag("h1", <<>>, <<Text(db.title)>>)
    IN  IF \E n \in 1..Len(rows) : ~RowHasKeys(rows[n], property_keys)
        THEN Raised("AttributeError", <<>>)
        ELSE LET table_html ==
                    Tag("table", <<>>,
                        <<Tag("thead", <<>>, <<header>>),
                          Tag("tbody", <<>>,
                              [n \in 1..Len(rows) |-> DbBodyRow(rows[n], property_keys)])>>)
                 body == Tag("body", <<>>,
                             IF has_title THEN <<heading, table_html>> ELSE <<table_html>>)
             IN  Ok(Tag("html", <<>>, IF has_title THEN <<head, body>> ELSE <<body>>),
                    RowIds(rows, "page"), RowIds(rows, "database"), <<>>)

\* property names: the strings of one to MaxNameLen characters
PropertyNames == UNION {[1..n -> 1..NumChars] : n \in 1..MaxNameLen}

\* the property names of a schema, in the insertion order of the mapping
Schemas == {s \in SeqUpTo(PropertyNames, MaxProps) : NoDuplicates(s)}

\* the rows of a query: pages and databases whose property mapping holds,
\* for each schema key, no cell, a cell without rich text or a cell whose
\* text is the name of its property
DbRowsOver(keys) ==
    LET cellMaps == UNION {[present -> BOOLEAN] : present \in SUBSET ToSet(keys)}
    IN  {[kind |-> k,
          properties |-> [name \in DOMAIN m |->
                             IF m[name] THEN <<RichText(name, "none", None)>> ELSE <<>>]] :
            k \in EntityKinds, m \in cellMaps}

InitDb ==
    /\ CrawlIdle
    /\ ConnectorIdle
    /\ root = <<>>
    /\ tree = <<>>
    /\ fail_ids = {}
    /\ arg_level = 0
    /\ \E schema \in Schemas, title \in {<<>>, <<1>>} :
          /\ database = [id |-> 1, title |-> title, properties |-> schema]
          /\ \E n \in 0..MaxDbRows : \E rs \in [1..n -> DbRowsOver(schema)] :
                db_rows = [m \in 1..n |->
                              [kind |-> rs[m].kind, id |-> m + 1, properties |-> rs[m].properties]]
    /\ RenderStart

\* extract_database_html(client, database.id, logger)
ExtractDatabaseHtmlCall ==
    /\ rpc = "init"
    /\ response' = ExtractDatabaseHtml(database, db_rows)
    /\ rpc' = "extract_database_html"
    /\ UNCHANGED <<renderInput, crawlVars, connectorVars>>

NextDb == ExtractDatabaseHtmlCall

SpecDb == InitDb /\ [][NextDb]_vars

\* ------------------------------------------------------------------------
\* NotionDownloader (connector.py 258-324)
\* ------------------------------------------------------------------------
DownloadReturns(v) == [outcome |-> "returned", value |-> v]

DownloadRaises(e) == [outcome |-> "raised", value |-> e]

\* the body of the try block of download_page and download_database: the
\* render, the test of text_extraction.html, the file written under the
\* download path and the DownloadResponse generated for it
DownloadAttempt(text_extraction, writable) ==
    IF text_extraction.status # "ok" THEN DownloadRaises(text_extraction.status)
    ELSE IF text_extraction.html = NoHtml THEN DownloadReturns("None")
    ELSE IF ~writable THEN DownloadRaises("OSError")
    ELSE DownloadReturns("DownloadResponse")

\* connector.py 277-300 without the except clause of lines 298-300
DownloadPageUncaught(text_extraction, writable) ==
    DownloadAttempt(text_extraction, writable)

\* connector.py 277-300
DownloadPage(text_extraction, writable) ==
    LET attempt == DownloadAttempt(text_extraction, writable)
    IN  IF attempt.outcome = "raised" THEN DownloadReturns("None") ELSE attempt

\* connector.py 302-324
DownloadDatabase(text_extraction, writable) ==
    LET attempt == DownloadAttempt(text_extraction, writable)
    IN  IF attempt.outcome = "raised" THEN DownloadReturns("None") ELSE attempt

\* the keys of a record locator and the locators over them
LocatorKeys == {"page_id", "database_id"}

Locators == UNION {[keys -> {1}] : keys \in SUBSET LocatorKeys}

\* the children a downloaded page can have: those of KindChildren and a
\* child-page marker carrying the id of the page itself
DownloadChildren == KindChildren \cup {Block(1, "child_page", TRUE)}

\* a work item whose locator names page 1, database 1, both or neither; the
\* page is a block of any kind, the database has at most one property and
\* one row, the children request of the page may raise and the download
\* file may not be writable
InitDownloader ==
    /\ CrawlIdle
    /\ IndexerIdle
    /\ DecodeIdle
    /\ root \in KindRoots
    /\ \E top \in SeqUpTo(DownloadChildren, MaxDownloadItems) : tree = <<top, <<>>, <<>>>>
    /\ fail_ids \in {{}, {1}}
    /\ arg_level = 0
    /\ \E schema \in {s \in Schemas : Len(s) <= MaxDownloadItems} :
          /\ database = [id |-> 1, title |-> <<1>>, properties |-> schema]
          /\ \E n \in 0..MaxDownloadItems : \E rs \in [1..n -> DbRowsOver(schema)] :
                db_rows = [m \in 1..n |->
                              [kind |-> rs[m].kind, id |-> m + 1, properties |-> rs[m].properties]]
    /\ RenderStart
    /\ record_locator \in Locators
    /\ disk_ok \in BOOLEAN
    /\ download = NoDownload

\* NotionDownloader.run, lines 262-267
DownloaderRunPage ==
    /\ download = NoDownload
    /\ rpc = "init"
    /\ "page_id" \in DOMAIN record_locator
    /\ response' = ExtractPageHtml(root)
    /\ rpc' = "extract_page_html"
    /\ download' = DownloadPage(response', disk_ok)
    /\ UNCHANGED <<renderInput, crawlVars, indexVars, record_locator, disk_ok, decodeVars>>

\* NotionDownloader.run, lines 268-273
DownloaderRunDatabase ==
    /\ download = NoDownload
    /\ rpc = "init"
    /\ "page_id" \notin DOMAIN record_locator
    /\ "database_id" \in DOMAIN record_locator
    /\ response' = ExtractDatabaseHtml(database, db_rows)
    /\ rpc' = "extract_database_html"
    /\ download' = DownloadDatabase(response', disk_ok)
    /\ UNCHANGED <<renderInput, crawlVars, indexVars, record_locator, disk_ok, decodeVars>>

\* NotionDownloader.run, lines 274-275
DownloaderRunInvalid ==
    /\ download = NoDownload
    /\ rpc = "init"
    /\ "page_id" \notin DOMAIN record_locator
    /\ "database_id" \notin DOMAIN record_locator
    /\ download' = DownloadRaises("ValueError")
    /\ UNCHANGED <<renderVars, crawlVars, indexVars, record_locator, disk_ok, decodeVars>>

NextDownloader == DownloaderRunPage \/ DownloaderRunDatabase \/ DownloaderRunInvalid

SpecDownloader == InitDownloader /\ [][NextDownloader]_vars

\* ------------------------------------------------------------------------
\* User payloads and the cells that decode them (types/user.py,
\* database_properties/created_by.py, last_edited_by.py, verification.py)
\* ------------------------------------------------------------------------
\* a payload is the value found under the user key of the data: `given` is
\* FALSE when the key is missing or null; the dict maps keys to strings, and
\* the key "bot.owner" stands for the entry owner of the mapping under "bot"
UserPayload(given, d) == [given |-> given, dict |-> d]

PayloadValues(key) ==
    CASE key = "type" -> {"person", "bot", "group"}
      [] key = "object" -> {"user", "list"}
      [] OTHER -> {"x"}

PayloadKeys == {"type", "object", "id", "person", "bot.owner", "avatar"}

UserPayloads ==
    {UserPayload(FALSE, <<>>)}
    \cup {UserPayload(TRUE, d) :
            d \in UNION {{f \in [keys -> {"person", "bot", "group", "user", "list", "x"}] :
                             \A k \in keys : f[k] \in PayloadValues(k)} :
                         keys \in SUBSET PayloadKeys}}

\* dict.get(key)
Get(d, key) == IF key \in DOMAIN d THEN d[key] ELSE "None"

\* what from_dict stores in the user field (People, Bots, PartialUser, None
\* or the dict it was given), or the error it raises
Stored(variant) == [status |-> "ok", variant |-> variant]

DecodeRaises(err) == [status |-> err, variant |-> "none"]

\* user.py 16-18: data["id"]
PartialUserFromDict(d) ==
    IF "id" \in DOMAIN d THEN Stored("PartialUser") ELSE DecodeRaises("KeyError")

\* cls(**kwargs) of a dataclass derived from User (user.py 25-30): object and
\* id are required, a keyword that is not a field is refused
UserFields == {"object", "id", "type", "name", "avatar_url"}

NewUser(variant, kwargs, fields) ==
    IF kwargs \subseteq fields /\ {"object", "id"} \subseteq kwargs
    THEN Stored(variant) ELSE DecodeRaises("TypeError")

\* user.py 32-34 inherited by People (49-51)
PeopleFromDict(d) == NewUser("People", DOMAIN d, UserFields \cup {"person"})

\* user.py 54-62
BotsFromDict(d) ==
    LET bot == IF "bot.owner" \in DOMAIN d THEN {"owner"} ELSE {}
    IN  NewUser("Bots", (DOMAIN d \ {"bot.owner"}) \cup bot,
                UserFields \cup {"owner", "workspace_name"})

\* created_by.py 31-44; an empty dict is falsy and is stored as it came
CreatedByCellFromDict(p) ==
    IF ~p.given THEN Stored("None")
    ELSE IF p.dict = <<>> THEN Stored("dict")
    ELSE IF Get(p.dict, "type") = "person" THEN PeopleFromDict(p.dict)
    ELSE IF Get(p.dict, "type") = "bot" THEN BotsFromDict(p.dict)
    ELSE IF Get(p.dict, "object") = "user" THEN PartialUserFromDict(p.dict)
    ELSE DecodeRaises("ValueError")

\* last_edited_by.py 29-42
LastEditedByCellFromDict(p) ==
    IF ~p.given THEN Stored("None")
    ELSE IF p.dict = <<>> THEN Stored("dict")
    ELSE IF Get(p.dict, "type") = "person" THEN PeopleFromDict(p.dict)
    ELSE IF Get(p.dict, "type") = "bot" THEN BotsFromDict(p.dict)
    ELSE IF Get(p.dict, "object") = "user" THEN PartialUserFromDict(p.dict)
    ELSE DecodeRaises("ValueError")

\* verification.py 36-54: line 42 binds the People value to another name, so
\* verified_by is still the dict when line 51 stores it; line 51 turns a
\* falsy verified_by into None. The data carries a state and no date.
VerificationDataFromDict(p) ==
    IF ~p.given THEN Stored("None")
    ELSE IF p.dict = <<>> THEN Stored("None")
    ELSE IF Get(p.dict, "type") = "person"
         THEN LET people == PeopleFromDict(p.dict)
              IN  IF people.status = "ok" THEN Stored("dict") ELSE people
    ELSE IF Get(p.dict, "type") = "bot" THEN BotsFromDict(p.dict)
    ELSE IF Get(p.dict, "object") = "user" THEN PartialUserFromDict(p.dict)
    ELSE DecodeRaises("ValueError")

Decoders == {"CreatedByCell", "LastEditedByCell", "VerificationData"}

\* one of the three classes is about to decode a payload
InitDecode ==
    /\ CrawlIdle
    /\ RenderIdle
    /\ IndexerIdle
    /\ DownloaderIdle
    /\ decoder \in Decoders
    /\ payload \in UserPayloads
    /\ decoded = NoDecoded

DecodeCreatedBy ==
    /\ decoder = "CreatedByCell"
    /\ decoded = NoDecoded
    /\ decoded' = CreatedByCellFromDict(payload)
    /\ UNCHANGED <<renderVars, crawlVars, indexVars, downloadVars, decoder, payload>>

DecodeLastEditedBy ==
    /\ decoder = "LastEditedByCell"
    /\ decoded = NoDecoded
    /\ decoded' = LastEditedByCellFromDict(payload)
    /\ UNCHANGED <<renderVars, crawlVars, indexVars, downloadVars, decoder, payload>>

DecodeVerification ==
    /\ decoder = "VerificationData"
    /\ decoded = NoDecoded
    /\ decoded' = VerificationDataFromDict(payload)
    /\ UNCHANGED <<renderVars, crawlVars, indexVars, downloadVars, decoder, payload>>

NextDecode == DecodeCreatedBy \/ DecodeLastEditedBy \/ DecodeVerification

SpecDecode == InitDecode /\ [][NextDecode]_vars

\* ------------------------------------------------------------------------
\* Reachability in the workspace graph
\* ------------------------------------------------------------------------
RECURSIVE ReachFrom(_, _)
ReachFrom(R, avoid) ==
    LET more == {j \in Ids : \E i \in R : j \in RefsOf(graph[i])} \ (R \cup avoid)
    IN  IF more = {} THEN R ELSE ReachFrom(R \cup more, avoid)

\* the entities other than the start that a path from the start reaches
\* without passing through an entity of `avoid`
Reachable(avoid) ==
    IF start.id \in avoid THEN {} ELSE ReachFrom({start.id}, avoid) \ {start.id}

DiscoveredPages == ToSet(child_pages)
DiscoveredDbs == ToSet(child_dbs)
Discovered(i) == IF entity[i] = "page" THEN i \in DiscoveredPages ELSE i \in DiscoveredDbs

\* ------------------------------------------------------------------------
\* Claims about get_recursive_content
\* ------------------------------------------------------------------------
HasCycle == \E i, j \in Ids : i # j /\ j \in RefsOf(graph[i]) /\ i \in RefsOf(graph[j])

\* C2: get_recursive_content terminates for every finite graph, cycles
\* included, whichever fetches raise: every run of the loop reaches the
\* return statement.
C2_CrawlTerminates == <>(pc = "done")

\* a crawl of a graph with a cycle, in which a fetch raised, has returned
C2_Witness == pc = "done" /\ HasCycle /\ failed # {} /\ Len(processed) >= 3

\* C3: when get_recursive_content returns, no id occurs more than once in
\* the returned child pages and none more than once in the returned child
\* databases.
C3_NoDuplicateIds == pc = "done" => NoDuplicates(child_pages) /\ NoDuplicates(child_dbs)

\* C4: when the fetch of X raised during the crawl, the crawl has returned
\* with X absent from the discovered collection of its kind, and with every
\* entity that a path avoiding the failed entries reaches from the start
\* present in the discovered collection of its kind.
C4_FaultIsolation ==
    pc = "done" =>
        /\ \A x \in failed : ~Discovered(x)
        /\ \A y \in Reachable(failed) : Discovered(y)

\* C5: two crawls from the same start entry over the same graph with the same
\* failing entries return the same set of discovered pages and the same set
\* of discovered databases, whatever order list(set(..)) produced in each.
C5_SecondCrawlAgrees ==
    pc = "done" /\ run = 2 => DiscoveredPages = first_pages /\ DiscoveredDbs = first_dbs

\* the second crawl has returned for a start page with two child pages (a
\* batch that list(set(..)) can order in two ways) and a failing entry
C5_Witness ==
    /\ pc = "done" /\ run = 2 /\ failing # {}
    /\ start.type = "page"
    /\ Cardinality(ToSet(MapIds(OfKind(graph[start.id], "child_page")))) = 2
    /\ first_pages # {}

\* C6: with no fetch failure the returned ids are exactly the entities other
\* than the start that are reachable from the start through child markers,
\* link_to_page blocks and database rows, each in the collection of its kind.
C6_ExactClosure ==
    pc = "done" /\ failed = {} =>
        /\ DiscoveredPages = {y \in Reachable({}) : entity[y] = "page"}
        /\ DiscoveredDbs = {y \in Reachable({}) : entity[y] = "database"}

\* a crawl without failures has returned a page and a database, the start
\* being reachable from itself through a cycle
C6_Witness ==
    /\ pc = "done" /\ failed = {} /\ HasCycle
    /\ DiscoveredPages # {} /\ DiscoveredDbs # {}
    /\ \E i \in Ids \ {start.id} : start.id \in RefsOf(graph[i])

\* ------------------------------------------------------------------------
\* Claims about process_block and extract_page_html
\* ------------------------------------------------------------------------
\* the children the root of the render call was given
RootChildren == FetchChildren(root.id)

\* the fragments the call appended to the root's own fragment
Appended ==
    SubSeq(response.html.inner, Len(GetHtml(root).inner) + 1, Len(response.html.inner))

\* the fragment of the page in the response of either render call
PageFragment ==
    IF rpc = "extract_page_html"
    THEN response.html.inner[Len(response.html.inner)].inner[1]
    ELSE response.html

Rendered == rpc \in {"process_block", "extract_page_html"} /\ response.status = "ok"

BulletsThenBlock ==
    /\ Len(RootChildren) >= 2
    /\ \A n \in 1..(Len(RootChildren) - 1) : RootChildren[n].kind = "bulleted_list_item"
    /\ RootChildren[Len(RootChildren)].kind = "paragraph"

\* C1: when the children of a block are N >= 1 bulleted list items followed
\* by one non-list block with a non-empty fragment, process_block appends to
\* the parent exactly one unordered list holding the N items in their order,
\* followed by the fragment of the non-list block.
C1_BulletsThenBlock ==
    rpc = "process_block" /\ response.status = "ok" /\ BulletsThenBlock =>
        LET N == Len(RootChildren) - 1
        IN  /\ Len(Appended) = 2
            /\ Appended[1].tag = "ul"
            /\ Len(Appended[1].inner) = N
            /\ \A n \in 1..N : Appended[1].inner[n].inner = GetHtml(RootChildren[n]).inner
            /\ Appended[2] = GetHtml(RootChildren[N + 1])

PlainChild(c) == c.kind = "paragraph" /\ ~c.has_children
MarkerChild(c) == c.kind = "child_page" /\ c.id # root.id

PlainAndMarkersOnly ==
    /\ root.kind = "child_page"
    /\ root.has_children
    /\ \A n \in 1..Len(RootChildren) : PlainChild(RootChildren[n]) \/ MarkerChild(RootChildren[n])

\* C7: for a root page P whose children are plain content blocks and
\* child-page markers with ids other than P, the page fragment holds the
\* fragment of every plain child exactly once and the fragment of no marker,
\* the discovered child pages are exactly the ids of the markers and the
\* discovered child databases are empty.
C7_PlainAndMarkers ==
    Rendered /\ PlainAndMarkersOnly =>
        LET plain == SelectSeq(RootChildren, PlainChild)
            markers == SelectSeq(RootChildren, MarkerChild)
        IN  /\ \A n \in 1..Len(plain) :
                  Count(PageFragment.inner, GetHtml(plain[n])) = Count(plain, plain[n])
            /\ \A n \in 1..Len(markers) : Count(PageFragment.inner, GetHtml(markers[n])) = 0
            /\ ToSet(response.child_pages) = ToSet(MapIds(markers))
            /\ response.child_databases = <<>>

\* extract_page_html has rendered a page with a plain child and a marker
\* that itself has children
C7_Witness ==
    /\ rpc = "extract_page_html" /\ response.status = "ok" /\ PlainAndMarkersOnly
    /\ \E n \in 1..Len(RootChildren) : PlainChild(RootChildren[n])
    /\ \E n \in 1..Len(RootChildren) :
          /\ MarkerChild(RootChildren[n])
          /\ RootChildren[n].has_children
          /\ FetchChildren(RootChildren[n].id) # <<>>
    /\ response.child_pages # <<>>

\* C8: when a page's own id is returned among its children as a child-page
\* marker, that id is not among the discovered child pages returned for the
\* page.
C8_OwnIdNotDiscovered ==
    (/\ Rendered
     /\ root.kind = "child_page"
     /\ \E n \in 1..Len(RootChildren) :
           RootChildren[n].kind = "child_page" /\ RootChildren[n].id = root.id)
    => root.id \notin ToSet(response.child_pages)

\* ------------------------------------------------------------------------
\* Claims about build_table
\* ------------------------------------------------------------------------
\* the table-row children of the table, in the order returned
RowBlocks == SelectSeq(RootChildren, LAMBDA r : r.kind = "table_row")

\* tr is a row element whose cells are cell_tag elements holding the texts
\* of the cells of the row block r, in order
IsRowOf(tr, r, cell_tag) ==
    /\ tr.tag = "tr"
    /\ Len(tr.inner) = Len(r.cells)
    /\ \A n \in 1..Len(r.cells) :
          /\ tr.inner[n].tag = cell_tag
          /\ Len(tr.inner[n].inner) = Len(r.cells[n])
          /\ \A m \in 1..Len(r.cells[n]) :
                tr.inner[n].inner[m].inner[1].text = r.cells[n][m].text

\* C9: for a table with a column header whose rows are r0, r1, .., rk the
\* produced table holds r0 as a header row and then r1 .. rk as data rows in
\* the original order; without a column header every row is a data row and
\* the order is preserved.
C9_HeaderThenRows ==
    rpc = "build_table" /\ response.status = "ok" /\ RowBlocks # <<>> =>
        LET out == response.html.inner
        IN  /\ Len(out) = Len(RowBlocks)
            /\ IF root.has_column_header
               THEN /\ out[1].tag = "thead"
                    /\ Len(out[1].inner) = 1
                    /\ IsRowOf(out[1].inner[1], RowBlocks[1], "th")
                    /\ \A n \in 2..Len(RowBlocks) : IsRowOf(out[n], RowBlocks[n], "td")
               ELSE \A n \in 1..Len(RowBlocks) : IsRowOf(out[n], RowBlocks[n], "td")

\* build_table has returned for a table with a column header and three
\* rows that differ from each other
C9_Witness ==
    /\ rpc = "build_table" /\ response.status = "ok"
    /\ root.has_column_header
    /\ Len(RowBlocks) = MaxRows
    /\ \A n, m \in 1..Len(RowBlocks) : n # m => RowBlocks[n].cells # RowBlocks[m].cells

\* ------------------------------------------------------------------------
\* Claims about extract_database_html
\* ------------------------------------------------------------------------
\* the table element of the rendered database
DbTable == LET body == response.html.inner[Len(response.html.inner)]
           IN  body.inner[Len(body.inner)]

\* the names in the header cells, left to right
HeaderNames == LET tr == DbTable.inner[1].inner[1]
               IN  [n \in 1..Len(tr.inner) |-> tr.inner[n].inner[1].text]

BodyRows == DbTable.inner[2].inner

\* C10: the header columns of the rendered database are the property names
\* of the schema in ascending sorted order, and every body row has exactly
\* one cell for each of these names, in the same order.
C10_SortedColumns ==
    rpc = "extract_database_html" /\ response.status = "ok" =>
        /\ Len(HeaderNames) = Len(database.properties)
        /\ ToSet(HeaderNames) = ToSet(database.properties)
        /\ \A i, j \in 1..Len(HeaderNames) : i < j => LexLess(HeaderNames[i], HeaderNames[j])
        /\ Len(BodyRows) = Len(db_rows)
        /\ \A n \in 1..Len(db_rows) :
              /\ BodyRows[n].tag = "tr"
              /\ Len(BodyRows[n].inner) = Len(HeaderNames)
              /\ \A m \in 1..Len(HeaderNames) :
                    /\ BodyRows[n].inner[m].tag = "td"
                    /\ Len(BodyRows[n].inner[m].inner) = 1
                    /\ BodyRows[n].inner[m].inner[1] =
                          LET cell == db_rows[n].properties[HeaderNames[m]]
                          IN  IF cell = <<>> THEN Div(<<>>, <<>>) ELSE DbCellHtml(cell)

\* a database whose schema lists three properties out of sorted order, one
\* name a prefix of another, has been rendered with two rows that hold
\* cells with text
C10_Witness ==
    /\ rpc = "extract_database_html" /\ response.status = "ok"
    /\ Len(database.properties) = MaxProps
    /\ database.properties # Sorted(database.properties)
    /\ \E i, j \in 1..Len(database.properties) :
          /\ Len(database.properties[i]) < Len(database.properties[j])
          /\ database.properties[i] = SubSeq(database.properties[j], 1, Len(database.properties[i]))
    /\ Len(db_rows) = MaxDbRows
    /\ \A n \in 1..Len(db_rows) : \E k \in DOMAIN db_rows[n].properties :
          db_rows[n].properties[k] # <<>>

\* a row of the query lacks the schema property named k
RowLacks(n, k) == k \notin DOMAIN db_rows[n].properties

\* C11: a row whose property mapping lacks a schema property P yields an
\* empty placeholder cell in P's column, and the render completes without
\* raising an error.
C11_MissingPropertyPlaceholder ==
    (/\ rpc = "extract_database_html"
     /\ \E n \in 1..Len(db_rows), m \in 1..Len(database.properties) :
           RowLacks(n, database.properties[m]))
    => /\ response.status = "ok"
       /\ \A n \in 1..Len(db_rows), m \in 1..Len(HeaderNames) :
             RowLacks(n, HeaderNames[m]) =>
                BodyRows[n].inner[m] = Tag("td", <<>>, <<Div(<<>>, <<>>)>>)

\* ------------------------------------------------------------------------
\* Claims about the list palettes
\* ------------------------------------------------------------------------
\* e is the fragment build_columned_list returns: a div of column wrappers
IsColumnedList(e) ==
    /\ e.tag = "div"
    /\ e.inner # <<>>
    /\ \A m \in 1..Len(e.inner) :
          /\ e.inner[m].tag = "div"
          /\ e.inner[m].attrs # <<>>
          /\ e.inner[m].attrs[1].name = "style"

\* every list container in the fragment h, where h was produced by the
\* process_block call with start_level d, has the palette entry of the
\* start level of the call that emitted it: the index (d + 1) modulo 3
RECURSIVE PaletteOk(_, _)
PaletteOk(h, d) ==
    \A n \in 1..Len(h.inner) :
        LET e == h.inner[n]
        IN  CASE e.tag = "ul" ->
                    /\ e.attrs = <<Attr("type", <<"circle", "square", "disc">>[((d + 1) % 3) + 1], 0)>>
                    /\ \A m \in 1..Len(e.inner) : PaletteOk(e.inner[m], d + 1)
              [] e.tag = "ol" ->
                    /\ e.attrs = <<Attr("type", <<"i", "a", "1">>[((d + 1) % 3) + 1], 0)>>
                    /\ \A m \in 1..Len(e.inner) : PaletteOk(e.inner[m], d + 1)
              [] IsColumnedList(e) ->
                    \A m \in 1..Len(e.inner) : PaletteOk(e.inner[m].inner[1], d + 2)
              [] OTHER -> PaletteOk(e, d + 1)

\* C12: the bullet style and the number marker of every list that
\* process_block emits are the palette entries at index (d + 1) modulo 3,
\* d being the start level of the call that emits the list, also for lists
\* inside the columns of a column list; a render at start_level d and one at
\* d + 3 produce the same fragment.
C12_PaletteByDepth ==
    /\ rpc = "process_block" /\ response.status = "ok" =>
          /\ PaletteOk(response.html, arg_level)
          /\ response.html = ProcessBlock(root, arg_level + 3, 1).html
    /\ rpc = "extract_page_html" /\ response.status = "ok" =>
          PaletteOk(PageFragment, 0)

\* a render at a start level above 0 has emitted a list among the children
\* of the root, a list nested in a list item and a list inside a column
C12_Witness ==
    /\ rpc = "process_block" /\ response.status = "ok"
    /\ arg_level > 0
    /\ Len(tree) = 4
    /\ \E n \in 1..Len(tree[1]) :
          /\ tree[1][n].kind = "bulleted_list_item" /\ tree[1][n].has_children
    /\ \E n \in 1..Len(tree[2]) : tree[2][n].kind = "numbered_list_item"
    /\ \E n \in 1..Len(tree[1]) : tree[1][n].kind = "column_list"
    /\ \E n \in 1..Len(tree[3]) : tree[3][n].id = 4
    /\ \E n \in 1..Len(tree[4]) : tree[4][n].kind = "numbered_list_item"

\* ------------------------------------------------------------------------
\* Claims about blocks that cannot have children
\* ------------------------------------------------------------------------
\* C13: process_block on a block that reports children while its kind (a
\* table row) cannot have children raises an error before any request for
\* children is made, and returns no fragment and no reference lists.
C13_ErrorBeforeFetch ==
    rpc = "process_block" /\ root.kind = "table_row" /\ root.has_children =>
        /\ response.status = "ValueError"
        /\ response.fetched = <<>>
        /\ response.html = NoHtml
        /\ response.child_pages = <<>>
        /\ response.child_databases = <<>>

\* process_block was called on a table row that reports children, the
\* client having children to return for it
C13_Witness ==
    /\ rpc = "process_block"
    /\ root.kind = "table_row" /\ root.has_children
    /\ FetchChildren(root.id) # <<>>
    /\ response.status = "ValueError"

\* ------------------------------------------------------------------------
\* More claims about get_recursive_content
\* ------------------------------------------------------------------------
\* C14: the id of the start entry is never in the discovered pages nor in
\* the discovered databases, whatever points back at the start, and it is
\* recorded in processed from the first iteration on.
C14_StartNotDiscovered ==
    pc \in {"loop", "done"} =>
        /\ start.id \notin DiscoveredPages \cup DiscoveredDbs
        /\ (processed # <<>> \/ pc = "done") => start.id \in ToSet(processed)

\* the crawl has returned after it fetched, without failure, an entity
\* that points back at the start through a marker or row and one that does
\* through a link_to_page block
C14_Witness ==
    /\ pc = "done"
    /\ \E i \in ToSet(processed) \ (failed \cup {start.id}) :
          \E n \in 1..Len(graph[i]) : graph[i][n].id = start.id
    /\ \E i \in ToSet(processed) \ (failed \cup {start.id}) :
          \E n \in 1..Len(graph[i]) :
             start.id \in {graph[i][n].page_id, graph[i][n].database_id}

\* ------------------------------------------------------------------------
\* Claims about the coalescing of list items
\* ------------------------------------------------------------------------
\* the children of the root are childless list items, paragraphs and synced
\* blocks, the child at position n having the id n + 1 and the text <<n + 1>>
ListScenario ==
    \A n \in 1..Len(RootChildren) :
        /\ RootChildren[n].kind \in ListKinds
        /\ ~RootChildren[n].has_children
        /\ RootChildren[n].id = n + 1

IsContainer(e) == e.tag \in {"ul", "ol"}

\* the id of the child whose text a list item or paragraph fragment holds
FragId(e) == e.inner[1].text[1]

\* the id of the first sibling an appended fragment stands for
FirstId(e) == IF IsContainer(e) THEN FragId(e.inner[1]) ELSE FragId(e)

Coalesced == rpc = "process_block" /\ response.status = "ok" /\ ListScenario

\* C15: every non-list child with a non-empty fragment appears exactly once
\* among the fragments appended to the parent, and the appended fragments
\* (list containers and non-list fragments) are in the order of the siblings.
C15_NonListKeptInOrder ==
    Coalesced =>
        /\ \A n \in 1..Len(RootChildren) :
              RootChildren[n].kind = "paragraph" =>
                 Count(Appended, GetHtml(RootChildren[n])) = 1
        /\ \A i, j \in 1..Len(Appended) :
              i < j => FirstId(Appended[i]) < FirstId(Appended[j])

\* C16: every emitted list container holds only items that were consecutive
\* siblings of the kind of the container.
C16_ContainersAreRuns ==
    Coalesced =>
        \A k \in 1..Len(Appended) :
            LET e == Appended[k]
            IN  IsContainer(e) =>
                   /\ \A m \in 1..Len(e.inner) :
                         RootChildren[FragId(e.inner[m]) - 1].kind =
                            (IF e.tag = "ul" THEN "bulleted_list_item" ELSE "numbered_list_item")
                   /\ \A m \in 1..(Len(e.inner) - 1) :
                         FragId(e.inner[m + 1]) = FragId(e.inner[m]) + 1

\* the places (container, position) at which the item with id i is emitted
PlacesOf(i) ==
    {p \in (1..Len(Appended)) \X (1..MaxSiblings) :
        /\ IsContainer(Appended[p[1]])
        /\ p[2] <= Len(Appended[p[1]].inner)
        /\ FragId(Appended[p[1]].inner[p[2]]) = i}

\* C17: every bulleted or numbered list item child is in exactly one emitted
\* list container, a container of its own kind, and nowhere else.
C17_ItemsInOneContainer ==
    Coalesced =>
        /\ \A k \in 1..Len(Appended) : Appended[k].tag # "li"
        /\ \A n \in 1..Len(RootChildren) :
              RootChildren[n].kind \in {"bulleted_list_item", "numbered_list_item"} =>
                 /\ Cardinality(PlacesOf(n + 1)) = 1
                 /\ \A p \in PlacesOf(n + 1) :
                       Appended[p[1]].tag =
                          (IF RootChildren[n].kind = "bulleted_list_item" THEN "ul" ELSE "ol")

\* the siblings were a bulleted item, a numbered item (both buffers hold an
\* item), a paragraph and a bulleted item that ends the sequence
C17_Witness ==
    /\ Coalesced
    /\ Len(RootChildren) = 4
    /\ RootChildren[1].kind = "bulleted_list_item"
    /\ RootChildren[2].kind = "numbered_list_item"
    /\ RootChildren[3].kind = "paragraph"
    /\ RootChildren[4].kind = "bulleted_list_item"

\* C18: every id is put on the worklist at most once, so that it is popped
\* and fetched at most once in a crawl: at any time an id has at most one
\* entry among those waiting on the worklist and those already popped.
C18_EnqueuedOnce ==
    pc \in {"loop", "done"} =>
        \A i \in Ids : Count(processed, i) + Count(MapIds(parents), i) <= 1

\* the ids the link_to_page blocks nested beneath page i point at
LinkedBeneath(i) ==
    {beneath[i][n].page_id : n \in {m \in 1..Len(beneath[i]) : beneath[i][m].page_id # None}}
    \cup {beneath[i][n].database_id :
            n \in {m \in 1..Len(beneath[i]) : beneath[i][m].database_id # None}}

\* C19: when a page has been processed, the target of every link_to_page
\* block located anywhere beneath the page, nested in a child block
\* included, has been discovered in the collection of its kind unless it
\* had been processed already.
C19_NestedLinksFollowed ==
    pc = "done" =>
        \A i \in ToSet(processed) \ failed :
            entity[i] = "page" =>
               \A t \in LinkedBeneath(i) : Discovered(t) \/ t \in ToSet(processed)

\* the list s without the occurrences of x
Without(s, x) == SelectSeq(s, LAMBDA y : y # x)

\* the list t is the list s with at most one occurrence of x taken out and
\* nothing else changed
OnlyRemoved(s, t, x) ==
    /\ Without(t, x) = Without(s, x)
    /\ Count(t, x) = (IF Count(s, x) = 0 THEN 0 ELSE Count(s, x) - 1)
    /\ Len(t) = Len(s) - (IF Count(s, x) = 0 THEN 0 ELSE 1)

\* C20: the loop iteration in which the fetch of the popped entry raises
\* adds no entry to the worklist and leaves the discovered collections as
\* they were, except that the id of the popped entry is removed from the
\* collection of its kind.
C20_FailedFetchFrame ==
    [][(pc = "loop" /\ Len(processed') = Len(processed) + 1 /\ Top.id \in failing) =>
          /\ parents' = Popped
          /\ IF Top.type = "page"
             THEN OnlyRemoved(child_pages, child_pages', Top.id) /\ child_dbs' = child_dbs
             ELSE OnlyRemoved(child_dbs, child_dbs', Top.id) /\ child_pages' = child_pages]_vars

\* the fetch of the entry popped last raised; the entry refers to an entity
\* that is neither processed nor discovered, and its own id was discovered
\* before
C20_Witness ==
    /\ pc = "loop" /\ processed # <<>>
    /\ LET i == processed[Len(processed)]
       IN  /\ i \in failing
           /\ i # start.id
           /\ \E j \in RefsOf(graph[i]) : j \notin ToSet(processed) /\ ~Discovered(j)
           /\ ~Discovered(i)

\* C21: for a fixed workspace and a fixed set of failing entries, a crawl that
\* takes any entry of the worklist at each iteration returns the same set of
\* discovered pages and the same set of discovered databases as the crawl
\* that pops the last entry, as the code does.
C21_PopOrderIrrelevant ==
    pc = "done" /\ run = 2 => ToSet(child_pages) = first_pages /\ ToSet(child_dbs) = first_dbs

\* the second crawl of a database with rows 2 and 3 (pushed in that order, so
\* that the code pops 3 first) has returned after taking 2 before 3, with a
\* failing entry in the workspace
C21_Witness ==
    /\ pc = "done" /\ run = 2 /\ failing # {}
    /\ start.type = "database"
    /\ graph[start.id] = <<PageRow(2), PageRow(3)>>
    /\ Len(processed) >= 3
    /\ processed[2] = 2

\* a render call of process_block or extract_page_html has returned normally
Returned == rpc \in {"process_block", "extract_page_html"} /\ response.status = "ok"

\* C22: the child-page and the child-database collection returned by a
\* render hold every id at most once, even when the same page is mentioned
\* in two table cells or marked under two blocks.
C22_ReturnedIdsUnique ==
    Returned => NoDuplicates(response.child_pages) /\ NoDuplicates(response.child_databases)

\* the child-page markers of the block tree beneath block b, each with the
\* ids of the blocks above it (b included)
RECURSIVE MarkersBeneath(_, _, _)
MarkersBeneath(b, above, depth) ==
    IF ~b.has_children \/ depth > MaxDepth THEN {}
    ELSE LET cs == FetchChildren(b.id)
             anc == above \cup {b.id}
         IN  {[id |-> cs[n].id, above |-> anc] :
                 n \in {k \in 1..Len(cs) : cs[k].kind = "child_page"}}
             \cup UNION {MarkersBeneath(cs[n], anc, depth + 1) : n \in 1..Len(cs)}

\* C23: a child-page marker, at any depth, whose id is the id of one of the
\* blocks above it in the render is not added to the returned child pages:
\* an id whose markers all sit beneath a block of that id is not returned.
C23_AncestorMarkerNotDiscovered ==
    Returned =>
        \A mk \in MarkersBeneath(root, {}, 1) :
            (\A other \in MarkersBeneath(root, {}, 1) :
                other.id = mk.id => other.id \in other.above)
            => mk.id \notin ToSet(response.child_pages)

\* C24: the children of a child-page marker whose id differs from the id of
\* the rendered root are never requested during the render.
C24_MarkerNotEntered ==
    rpc \in {"process_block", "extract_page_html"} =>
        \A mk \in MarkersBeneath(root, {}, 1) :
            mk.id # root.id => mk.id \notin ToSet(response.fetched)

\* C25: process_block terminates on every finite block graph, also when the
\* children of a page hold a child-page marker with the page's own id that
\* reports children: the nesting of the calls stays within what the
\* interpreter allows.
C25_RenderTerminates ==
    rpc \in {"process_block", "extract_page_html"} => response.status # "RecursionError"

\* the only child of the rendered page is block 6 of the given kinds, whose
\* only child is the marker of page 2 or of database 3
LeafBeneath(kinds, leaf_kind) ==
    /\ root.kind = "child_page"
    /\ Len(tree[1]) = 1 /\ tree[1][1].id = 6 /\ tree[1][1].kind \in kinds
    /\ Len(tree[6]) = 1 /\ tree[6][1].kind = leaf_kind /\ tree[6][1].id # root.id

\* C26: the ids discovered beneath a bulleted or numbered list item are in
\* the reference collections returned for the enclosing root, as they are
\* beneath any other block.
C26_ListItemReferencesKept ==
    Returned =>
        /\ LeafBeneath({"paragraph", "bulleted_list_item", "numbered_list_item"}, "child_page")
              => response.child_pages = <<tree[6][1].id>>
        /\ LeafBeneath({"paragraph", "bulleted_list_item", "numbered_list_item"}, "child_database")
              => response.child_databases = <<tree[6][1].id>>

\* the children of the rendered page are markers and a column list only
MarkersAndColumnList ==
    /\ root.kind = "child_page"
    /\ HasKind(tree[1], {"column_list"})
    /\ ~HasKind(tree[1], {"table", "paragraph", "bulleted_list_item", "numbered_list_item"})

\* C27: build_columned_list returns an empty child-page and an empty
\* child-database collection whatever its columns hold, so that the render
\* of a page returns the markers among its own children and nothing for a
\* column list among them.
C27_ColumnListNoReferences ==
    /\ rpc = "build_columned_list"
          => response.child_pages = <<>> /\ response.child_databases = <<>>
    /\ Returned /\ MarkersAndColumnList
          => /\ response.child_pages = MapIds(OfKind(tree[1], "child_page"))
             /\ response.child_databases = MapIds(OfKind(tree[1], "child_database"))

\* build_columned_list has returned for a column list whose column holds
\* the marker of page 2
C27_Witness ==
    /\ rpc = "build_columned_list" /\ response.status = "ok"
    /\ root.kind = "column_list"
    /\ tree[7] = <<Block(2, "child_page", FALSE)>>

\* the rich-text runs of the rows of a table in reading order: row by row,
\* cell by cell, run by run
RECURSIVE Flatten(_)
Flatten(seqs) == IF seqs = <<>> THEN <<>> ELSE Head(seqs) \o Flatten(Tail(seqs))

RunsOf(rows) == Flatten([n \in 1..Len(rows) |-> Flatten(rows[n].cells)])

MentionedIn(rows, mtype) ==
    [n \in 1..Len(SelectSeq(RunsOf(rows), LAMBDA rt : rt.mention_type = mtype)) |->
        SelectSeq(RunsOf(rows), LAMBDA rt : rt.mention_type = mtype)[n].mention_id]

\* the children of the rendered page are markers and a table only
MarkersAndTable ==
    /\ root.kind = "child_page"
    /\ HasKind(tree[1], {"table"})
    /\ ~HasKind(tree[1], {"column_list", "paragraph", "bulleted_list_item",
                          "numbered_list_item"})

\* what each child of the page contributes, in sibling order: a marker its
\* own id, the table the ids that the runs of its rows mention
RECURSIVE Contributed(_, _, _)
Contributed(children, marker_kind, mtype) ==
    IF children = <<>> THEN <<>>
    ELSE (IF Head(children).kind = marker_kind THEN <<Head(children).id>>
          ELSE IF Head(children).kind = "table"
          THEN MentionedIn(tree[Head(children).id], mtype)
          ELSE <<>>) \o Contributed(Tail(children), marker_kind, mtype)

\* C28: for a table child the references merged into the render's result
\* are exactly the ids mentioned by the rich-text runs of the cells of
\* every row, header row included: page mentions among the child pages,
\* database mentions among the child databases, and nothing else.
C28_TableReferencesAreMentions ==
    Returned /\ MarkersAndTable
        => /\ response.child_pages = Contributed(tree[1], "child_page", "page")
           /\ response.child_databases = Contributed(tree[1], "child_database", "database")

\* the render of a page has returned whose only child is a table with a
\* header row mentioning database 3 in its second cell and a body row
\* mentioning page 2
C28_Witness ==
    /\ Returned
    /\ Len(tree[1]) = 1 /\ tree[1][1].kind = "table" /\ tree[1][1].has_column_header
    /\ Len(tree[4]) = 2
    /\ tree[4][1].cells[2][1].mention_type = "database"
    /\ tree[4][2].cells[1][1].mention_type = "page"
    /\ response.child_pages = <<2>> /\ response.child_databases = <<3>>

\* C29: during one process_block render the children of a block id are
\* requested from the client at most once: the sequence of the ids requested
\* holds no id twice, so the rows of a table and the columns of a column
\* list are requested by build_table and build_columned_list only and not
\* by the recursion over the children as well.
C29_ChildrenFetchedOnce ==
    rpc \in {"process_block", "extract_page_html"} => NoDuplicates(response.fetched)

\* the positions of the requests that the remote end failed
FailedRequests == {n \in 1..Len(response.fetched) : response.fetched[n] \in fail_ids}

\* C30: when the request for the children of a block reached during a
\* render fails, at any depth and inside a table or column-list builder as
\* well, the failure reaches the caller: no fragment and no reference list
\* is returned, and nothing is requested after the failed request.
C30_FetchFailurePropagates ==
    rpc \in {"process_block", "extract_page_html", "build_columned_list", "build_table"}
        => IF FailedRequests = {}
           THEN response.status # "APIResponseError"
           ELSE /\ response.status = "APIResponseError"
                /\ response.html = NoHtml
                /\ response.child_pages = <<>> /\ response.child_databases = <<>>
                /\ FailedRequests = {Len(response.fetched)}

\* the render of a page whose children are a column list and a marker with
\* children has ended at the failed request for the children of column 7,
\* after the requests for the page and the column list
C30_Witness ==
    /\ rpc = "process_block"
    /\ fail_ids = {7}
    /\ Len(tree[1]) = 2 /\ tree[1][1].kind = "column_list"
    /\ tree[1][2] = Block(2, "child_page", TRUE)
    /\ response.status = "APIResponseError"
    /\ response.fetched = <<1, 5, 7>>

\* the cell of body row n in column m is the empty placeholder
PlaceholderCell(n, m) == BodyRows[n].inner[m] = Tag("td", <<>>, <<Div(<<>>, <<>>)>>)

\* C31: the rendered database has one body row per queried row, in query
\* order (row n shows the cells of the n-th queried row); the ids of the
\* rows that are pages are the returned child pages, those of the rows that
\* are databases the returned child databases; and the children of no block
\* are requested.
C31_FlatRowsAndReferences ==
    rpc = "extract_database_html" /\ response.status = "ok" =>
        /\ Len(BodyRows) = Len(db_rows)
        /\ \A n \in 1..Len(db_rows), m \in 1..Len(HeaderNames) :
              PlaceholderCell(n, m) <=> db_rows[n].properties[HeaderNames[m]] = <<>>
        /\ response.child_pages = MapIds(OfKind(db_rows, "page"))
        /\ response.child_databases = MapIds(OfKind(db_rows, "database"))
        /\ response.fetched = <<>>

\* a database of two properties has been rendered whose first row is a
\* database and whose second row is a page, the two rows differing in the
\* column whose cell is empty
C31_Witness ==
    /\ rpc = "extract_database_html" /\ response.status = "ok"
    /\ Len(database.properties) = 2
    /\ Len(db_rows) = 2
    /\ db_rows[1].kind = "database" /\ db_rows[2].kind = "page"
    /\ PlaceholderCell(1, 1) /\ ~PlaceholderCell(1, 2)
    /\ ~PlaceholderCell(2, 1) /\ PlaceholderCell(2, 2)
    /\ response.child_pages = <<db_rows[2].id>>
    /\ response.child_databases = <<db_rows[1].id>>

\* the crawl that starts at the configured id i has returned
CrawlCompleted(i) ==
    \/ i \in processed_pages /\ ~(current = i /\ ipc \in {"page_children", "page_crawl"})
    \/ i \in processed_databases
          /\ ~(current = i /\ ipc \in {"database_children", "database_crawl"})

\* C32: in recursive mode no FileData is yielded before the crawls of the
\* configured start ids have completed.
C32_CrawlBeforeFirstYield ==
    ipc # "idle" /\ index_config.recursive /\ yielded # <<>>
        => \A i \in index_config.page_ids \cup index_config.database_ids : CrawlCompleted(i)

\* an id is configured and also discovered by the crawl from another
\* configured id, two entities refer to the same third one, and the
\* workspace has a cycle
SharedAndCyclic ==
    /\ \E i, j \in Ids : i # j /\ j \in RefsOf(graph[i]) /\ i \in RefsOf(graph[j])
    /\ \E i, j, k \in Ids :
          /\ i # j /\ k \notin {i, j}
          /\ k \in RefsOf(graph[i]) \cap RefsOf(graph[j])
    /\ \E i, j \in index_config.page_ids \cup index_config.database_ids :
          i # j /\ j \in RefsOf(graph[i])

\* C33: over a whole run NotionIndexer.run yields at most one FileData per
\* page id and at most one per database id, in recursive mode as well:
\* with cycles, with ids both configured and discovered, and with ids
\* discovered from several parents.
C33_OneFileDataPerId ==
    ipc # "idle" => NoDuplicates(yielded)

\* a recursive run over a cyclic workspace with a shared child has ended
\* after yielding the FileData of all three entities
C33_Witness ==
    /\ ipc = "done"
    /\ index_config.recursive
    /\ SharedAndCyclic
    /\ Len(yielded) = NumIds

\* no processed id is left in the set it was taken from
NoProcessedLeft ==
    /\ pages_to_process \cap processed_pages = {}
    /\ databases_to_process \cap processed_databases = {}

\* C34: in recursive mode too, no id of processed_pages is ever left in
\* pages_to_process and no id of processed_databases in
\* databases_to_process, and NotionIndexer.run terminates on every finite
\* workspace: both sets become empty and the while loop is left.
C34_IndexerTerminates ==
    /\ [](ipc # "idle" => NoProcessedLeft)
    /\ <>(ipc = "done" /\ pages_to_process = {} /\ databases_to_process = {})

\* a recursive run over a workspace with a cycle has ended with every
\* entity processed, each in the set of its kind
C34_Witness ==
    /\ ipc = "done"
    /\ index_config.recursive
    /\ \E i, j \in Ids : i # j /\ j \in RefsOf(graph[i]) /\ i \in RefsOf(graph[j])
    /\ processed_pages \cup processed_databases = Ids
    /\ pages_to_process = {} /\ databases_to_process = {}


\* C35: NotionDownloader.run hands a work item whose locator has a page_id
\* to the page render and one whose locator has only a database_id to the
\* database render, and raises for a locator with neither; an error raised
\* by the render or by writing the file never leaves download_page or
\* download_database: the call returns None, and it returns a
\* DownloadResponse when nothing was raised.
C35_DispatchAndAbsentResult ==
    download # NoDownload =>
        LET keys == DOMAIN record_locator
            failed_inside == response.status # "ok" \/ ~disk_ok
        IN  /\ "page_id" \in keys => rpc = "extract_page_html"
            /\ ("page_id" \notin keys /\ "database_id" \in keys) =>
                   rpc = "extract_database_html"
            /\ keys \cap LocatorKeys = {} =>
                   rpc = "init" /\ download = DownloadRaises("ValueError")
            /\ keys \cap LocatorKeys # {} =>
                   /\ download.outcome = "returned"
                   /\ download.value = IF failed_inside THEN "None" ELSE "DownloadResponse"

\* a page whose render raised and whose download returned None
C35_Witness ==
    /\ rpc = "extract_page_html"
    /\ response.status \in {"APIResponseError", "ValueError", "RecursionError"}
    /\ disk_ok
    /\ download = DownloadReturns("None")

\* the variant the discriminators of a payload select
SelectedVariant(p) ==
    IF ~p.given THEN "None"
    ELSE IF Get(p.dict, "type") = "person" THEN "People"
    ELSE IF Get(p.dict, "type") = "bot" THEN "Bots"
    ELSE IF Get(p.dict, "object") = "user" THEN "PartialUser"
    ELSE "error"

\* C36: CreatedByCell.from_dict, LastEditedByCell.from_dict and
\* VerificationData.from_dict give the same result for the same user
\* payload: People for type person, Bots for type bot, otherwise PartialUser
\* for object user, no value for an absent user and an error for any other
\* discriminator; the dict that came in is never what is stored.
C36_SameVariantNeverRaw ==
    decoded # NoDecoded =>
        /\ decoded = CreatedByCellFromDict(payload)
        /\ decoded = LastEditedByCellFromDict(payload)
        /\ decoded = VerificationDataFromDict(payload)
        /\ decoded.status = "ok" => decoded.variant = SelectedVariant(payload)
        /\ SelectedVariant(payload) = "error" => decoded.status # "ok"
        /\ decoded.variant # "dict"
====
